---- MODULE Spec2Model ----
(***************************************************************************)
(* Verification model of the retro-503 prototypes: the message-frame codec *)
(* (minimal variant of simple-system / proto-system, extended variant of   *)
(* simple-tokio), the glow registers and the servers of simple-tokio and   *)
(* simple-system (dispatch loop and background tick loop sharing one       *)
(* ServerState under one lock).                                            *)
(***************************************************************************)
EXTENDS Integers, Sequences, FiniteSets, TLC

VARIABLES
    \* ---- codec harness (one byte stream, one decoder) ----
    variant,    \* which codec is under test: "minimal" or "extended" ("none": server run)
    wire,       \* bytes written by the sender and not yet read
    buf,        \* the receiver's reusable buffer (Vec<u8>)
    txlog,      \* what was put on the wire, in order
    rxlog,      \* what receive returned, in order
    \* ---- server ----
    state,      \* the ServerState behind Arc<Mutex<..>>
    run_flag,   \* the shared AtomicBool cleared by Ctrl-C
    conn,       \* the connection's panel_receiver: "running", "done" (Ok), "failed" (Err)
    out,        \* frames written to the socket by the latest dispatch, in order
    nctl,       \* control (non-STAT) frames dispatched and connection faults so far
    last,       \* the frame the latest dispatch read: its kind, code and payload
    polls,      \* STAT frames dispatched since the latest RESET (-1: none since boot or POWER)
    lock,       \* threads inside a critical section on ServerState: "cpu", "conn"
    cpu_pc,     \* simple_cpu: "none" (not spawned), "check", "batch", "sleep", "exit"
    cpu_i,      \* simple_cpu: iterations of the for loop done in this batch
    push_k,     \* send_status: frames of the running push already sent (0: no push)
    poisoned,   \* the ServerState mutex is poisoned: a thread panicked holding its guard
    pvariant,   \* the panel under test: "proto-system", "simple-system" ("none": no panel)
    pstate,     \* the panel's PanelState, the mirror its receive loop writes
    prx,        \* the panel's receive loop: "running", "done" (Ok), "failed" (Err)
    plast,      \* the frame the panel's receive loop read last
    events,     \* events the receive loop has sent on event_tx, in order
    exit_flag,  \* the AtomicBool the panel's UI loop watches
    pcount,     \* frames the panel has received so far
    reg,        \* the Register<T> under test
    ff,         \* the FlipFlop under test
    rclock,     \* the EmulationClock the register and the flip-flop share
    rlast,      \* the latest call on reg or ff: its name, operand and outcome
    rcount,     \* calls made on reg and ff so far
    lamp,       \* one lamp of a register: the bit it shows and its glow as an f32
    idn,        \* the identification handshake: the broker's queue and each connection
    snd,        \* a panel's event_sender: its queue, its position and what it has written
    ui          \* a panel between server and user: its mirror, frames in flight, events submitted

cvars == <<variant, wire, buf, txlog, rxlog>>

svars == <<state, run_flag, conn, out, nctl, last, polls>>

lvars == <<lock, cpu_pc, cpu_i, push_k, poisoned>>

pvars == <<pvariant, pstate, prx, plast, events, exit_flag, pcount>>

rvars == <<reg, ff, rclock, rlast, rcount>>

hvars == <<lamp, idn, snd, ui>>

vars == <<variant, wire, buf, txlog, rxlog, state, run_flag, conn, out, nctl, last, polls,
          lock, cpu_pc, cpu_i, push_k, poisoned,
          pvariant, pstate, prx, plast, events, exit_flag, pcount,
          reg, ff, rclock, rlast, rcount, lamp, idn, snd, ui>>

-----------------------------------------------------------------------------
(* Bytes and slices.  Rust slices are 0-based and half-open; the helpers   *)
(* below take Rust indexes.                                                *)

U8 == 256

FRAME_START == <<90, 90>>       \* 0x5A 0x5A
FRAME_END == <<165, 165>>       \* 0xA5 0xA5

Slice(s, a, b) == SubSeq(s, a + 1, b)

StartsWith(s, p) == Len(s) >= Len(p) /\ SubSeq(s, 1, Len(p)) = p

\* buf.resize(n, 0)
Resize(s, n) ==
    IF n <= Len(s) THEN SubSeq(s, 1, n) ELSE s \o [i \in 1..(n - Len(s)) |-> 0]

\* reader.read_exact(&mut buf[a..b]) with the bytes given
ReadInto(s, a, bytes) ==
    SubSeq(s, 1, a) \o bytes \o SubSeq(s, a + Len(bytes) + 1, Len(s))

Drop(s, n) == SubSeq(s, n + 1, Len(s))

-----------------------------------------------------------------------------
(* Minimal frame variant: simple-system frame_message / unframe_message    *)
(* and proto-system MessageSender::send / MessageReceiver::receive.        *)

\* a sender that writes the payload length in one byte only
FrameMessageShortLen(code, payload) ==
    FRAME_START
        \o <<Len(code) % U8>>
        \o code
        \o <<0, Len(payload) % U8>>
        \o (IF Len(payload) > 0 THEN payload ELSE <<>>)
        \o FRAME_END

FrameMessage(code, payload) ==
    FRAME_START
        \o <<Len(code) % U8>>
        \o code
        \o <<(Len(payload) \div 256) % U8, Len(payload) % U8>>
        \o (IF Len(payload) > 0 THEN payload ELSE <<>>)
        \o FRAME_END

\* The result of one receive call.  res is "ok", "err" (a decode error, not
\* an io::Error) or "io" (read_exact could not be satisfied: the stream held
\* too few bytes).  rest is what is left unread, b the buffer afterwards.
RxOk(id, code, payload, rest, b) ==
    [res |-> "ok", id |-> id, code |-> code, payload |-> payload, rest |-> rest, b |-> b]

RxErr(why, rest, b) ==
    [res |-> "err", id |-> <<>>, code |-> <<>>, payload |-> why, rest |-> rest, b |-> b]

RxIo(b) ==
    [res |-> "io", id |-> <<>>, code |-> <<>>, payload |-> <<>>, rest |-> <<>>, b |-> b]

\* The loop of receive reads a fixed-size head and goes round again until the
\* head starts with FRAME_START: heads consumed before the first such head.
SkipCount(stream, head) ==
    LET hits == {k \in 0..(Len(stream) \div head - 1) :
                    SubSeq(stream, k * head + 1, k * head + Len(FRAME_START)) = FRAME_START}
    IN  IF hits = {} THEN -1 ELSE CHOOSE k \in hits : \A j \in hits : k <= j

UnframeMessage(stream, b0) ==
    LET frame_len == Len(FRAME_START)
        code_x == frame_len + 1
        skip == SkipCount(stream, code_x)
    IN  IF skip < 0 THEN RxIo(b0)
        ELSE
        LET b1 == ReadInto(b0, 0, SubSeq(stream, skip * code_x + 1, (skip + 1) * code_x))
            s1 == Drop(stream, (skip + 1) * code_x)
            code_len == b1[frame_len + 1]
            payload_len_x == code_x + code_len
            payload_x == payload_len_x + 2
            b2 == IF Len(b1) < payload_x THEN Resize(b1, payload_x + 32) ELSE b1
        IN  IF Len(s1) < payload_x - code_x THEN RxIo(b2)
            ELSE
            LET b3 == ReadInto(b2, code_x, SubSeq(s1, 1, payload_x - code_x))
                s3 == Drop(s1, payload_x - code_x)
                payload_len == b3[payload_len_x + 1] * 256 + b3[payload_len_x + 2]
                frame_end_x == payload_x + payload_len
                buf_len == frame_end_x + Len(FRAME_END)
                b4 == IF Len(b3) < buf_len THEN Resize(b3, buf_len + 32) ELSE b3
            IN  IF Len(s3) < buf_len - payload_x THEN RxIo(b4)
                ELSE
                LET b5 == ReadInto(b4, payload_x, SubSeq(s3, 1, buf_len - payload_x))
                    s5 == Drop(s3, buf_len - payload_x)
                IN  IF ~StartsWith(Drop(b5, frame_end_x), FRAME_END)
                    THEN RxErr("Invalid frame ending sentinel", s5, b5)
                    ELSE RxOk(<<>>, Slice(b5, code_x, payload_len_x),
                              Slice(b5, payload_x, frame_end_x), s5, b5)

-----------------------------------------------------------------------------
(* Extended frame variant: simple-tokio MessageSender::send and            *)
(* MessageReceiver::receive (sender id and overall frame length added).    *)

Send(my_id, code, payload) ==
    LET my_id_len == Len(my_id)
        code_len == Len(code)
        payload_len == Len(payload)
        frame_len == my_id_len + code_len + payload_len + 2 + 1 + 1 + 2
    IN  FRAME_START
            \o <<(frame_len \div 256) % U8, frame_len % U8>>
            \o <<my_id_len % U8>>
            \o my_id
            \o <<code_len % U8>>
            \o code
            \o <<(payload_len \div 256) % U8, payload_len % U8>>
            \o (IF payload_len > 0 THEN payload ELSE <<>>)
            \o FRAME_END

ReceiveLoop(stream, b0) ==
    LET frame_len_x == Len(FRAME_START)
        id_x == frame_len_x + 2 + 1
        skip == SkipCount(stream, id_x)
    IN  IF skip < 0 THEN RxIo(b0)
        ELSE
        LET b1 == ReadInto(b0, 0, SubSeq(stream, skip * id_x + 1, (skip + 1) * id_x))
            s1 == Drop(stream, (skip + 1) * id_x)
            frame_len == b1[frame_len_x + 1] * 256 + b1[frame_len_x + 2]
            frame_end_len == Len(FRAME_END)
            total_len == frame_len + frame_len_x + frame_end_len
            id_len == b1[frame_len_x + 3]
            code_len_x == id_x + id_len
            code_x == code_len_x + 1
        IN  IF code_x > total_len THEN RxErr("Invalid frame id_len", s1, b1)
            ELSE
            LET b2 == IF Len(b1) < total_len THEN Resize(b1, total_len + 32) ELSE b1
            IN  IF Len(s1) < total_len - id_x THEN RxIo(b2)
                ELSE
                LET b3 == ReadInto(b2, id_x, SubSeq(s1, 1, total_len - id_x))
                    s3 == Drop(s1, total_len - id_x)
                    code_len == b3[code_len_x + 1]
                    payload_len_x == code_x + code_len
                    payload_x == payload_len_x + 2
                IN  IF payload_x > total_len
                    THEN RxErr("Invalid frame code_len", s3, b3)
                    ELSE
                    LET payload_len == b3[payload_len_x + 1] * 256 + b3[payload_len_x + 2]
                        frame_end_x == payload_x + payload_len
                    IN  IF frame_end_x + frame_end_len # total_len
                        THEN RxErr("Invalid frame payload_len", s3, b3)
                        ELSE IF ~StartsWith(Drop(b3, frame_end_x), FRAME_END)
                        THEN RxErr("Invalid frame ending sentinel", s3, b3)
                        ELSE RxOk(Slice(b3, id_x, code_len_x),
                                  Slice(b3, code_x, payload_len_x),
                                  Slice(b3, payload_x, frame_end_x), s3, b3)

Receive(stream, b0) ==
    LET id_x == Len(FRAME_START) + 2 + 1
    IN  ReceiveLoop(stream, IF Len(b0) < id_x THEN Resize(b0, id_x + 256) ELSE b0)

-----------------------------------------------------------------------------
(* Codec harness: a sender writes frames (and an unreliable channel adds   *)
(* garbage or damages a sentinel) onto one byte stream; the receiver calls *)
(* receive on it.  A receive whose read_exact cannot be satisfied stays    *)
(* blocked, so the action is enabled once the call can return.             *)

MaxFrames == 2      \* items put on the wire in one run
MaxFaults == 1      \* of which damaged frames or garbage

CodeSTAT == <<83, 84, 65, 84>>
CodePOWER == <<80, 79, 87, 69, 82>>
ServerId == <<77, 70>>                      \* "MF"

LongCode == <<>> \o [i \in 1..255 |-> i % 256]
LongPayload == <<>> \o [i \in 1..258 |-> IF i > 200 THEN (i * 7) % 256 ELSE 0]

Menu ==
    { [id |-> ServerId, code |-> CodeSTAT, payload |-> <<>>],
      [id |-> <<>>, code |-> CodePOWER, payload |-> <<1>>],
      [id |-> ServerId, code |-> LongCode, payload |-> <<90, 90>>],
      [id |-> <<80>>, code |-> <<>>, payload |-> LongPayload] }

BadEnds == {<<165, 0>>, <<90, 90>>}
BadStarts == {<<0, 90>>, <<165, 165>>}
Garbage == {<<90>>, <<0>>, <<0, 0>>, <<1, 2, 3, 4>>}

NoInput == [kind |-> "none", code |-> <<>>, payload |-> <<>>]

\* the server variables, unused by the codec harness
ServerIdle ==
    /\ state = <<>>
    /\ run_flag = TRUE
    /\ conn = "none"
    /\ out = <<>>
    /\ nctl = 0
    /\ last = NoInput
    /\ polls = -1
    /\ lock = {}
    /\ cpu_pc = "none"
    /\ cpu_i = 0
    /\ push_k = 0
    /\ poisoned = FALSE

\* the panel variables, unused where no panel runs
PanelIdle ==
    /\ pvariant = "none"
    /\ pstate = <<>>
    /\ prx = "none"
    /\ plast = NoInput
    /\ events = <<>>
    /\ exit_flag = FALSE
    /\ pcount = 0

\* the variables of the register harness, unused elsewhere
RegIdle ==
    /\ reg = <<>>
    /\ ff = <<>>
    /\ rclock = <<>>
    /\ rlast = NoInput
    /\ rcount = 0

\* the variables of the small harnesses, unused elsewhere
LampIdle == lamp = <<>>
IdnIdle == idn = <<>>
SndIdle == snd = <<>>
UiIdle == ui = <<>>

HarnessIdle == LampIdle /\ IdnIdle /\ SndIdle /\ UiIdle

Buffers == {<<"minimal", 3>>, <<"minimal", 256>>, <<"extended", 0>>, <<"extended", 256>>}

Encode(v, m) ==
    IF v = "minimal" THEN FrameMessage(m.code, m.payload)
    ELSE Send(m.id, m.code, m.payload)

\* a decoder that lets a frame-length mismatch pass as an empty message
DecodeTrusting(v, stream, b) ==
    LET r == IF v = "minimal" THEN UnframeMessage(stream, b) ELSE Receive(stream, b)
    IN  IF r.res = "err" /\ r.payload = "Invalid frame payload_len"
        THEN RxOk(<<>>, <<>>, <<>>, r.rest, r.b)
        ELSE r

Decode(v, stream, b) ==
    IF v = "minimal" THEN UnframeMessage(stream, b) ELSE Receive(stream, b)

Faults == Cardinality({i \in 1..Len(txlog) : txlog[i].kind # "good"})

Aborted == \E i \in 1..Len(rxlog) : rxlog[i].res = "err"

CodecInit ==
    /\ \E vb \in Buffers :
        /\ variant = vb[1]
        /\ buf = Resize(<<>>, vb[2])
    /\ wire = <<>>
    /\ txlog = <<>>
    /\ rxlog = <<>>
    /\ ServerIdle
    /\ PanelIdle
    /\ RegIdle
    /\ HarnessIdle

Put(kind, m, bytes) ==
    /\ Len(txlog) < MaxFrames
    /\ kind # "good" => Faults < MaxFaults
    /\ wire' = wire \o bytes
    /\ txlog' = Append(txlog, [kind |-> kind, id |-> m.id, code |-> m.code,
                               payload |-> m.payload, size |-> Len(bytes)])
    /\ UNCHANGED <<variant, buf, rxlog>>
    /\ UNCHANGED <<svars, lvars, pvars, rvars, hvars>>

CodecSend == \E m \in Menu : Put("good", m, Encode(variant, m))

CodecSendBadEnd ==
    \E m \in Menu, e \in BadEnds :
        LET f == Encode(variant, m)
        IN  Put("badend", m, SubSeq(f, 1, Len(f) - 2) \o e)

CodecSendBadStart ==
    \E m \in Menu, e \in BadStarts :
        LET f == Encode(variant, m)
        IN  Put("badstart", m, e \o Drop(f, 2))

CodecGarbage ==
    \E g \in Garbage :
        Put("garbage", [id |-> <<>>, code |-> <<>>, payload |-> <<>>], g)

CodecReceive ==
    /\ ~Aborted
    /\ LET r == Decode(variant, wire, buf)
       IN  /\ r.res # "io"
           /\ wire' = r.rest
           /\ buf' = r.b
           /\ rxlog' = Append(rxlog, [res |-> r.res, id |-> r.id, code |-> r.code,
                                      payload |-> r.payload])
    /\ UNCHANGED <<variant, txlog>>
    /\ UNCHANGED <<svars, lvars, pvars, rvars, hvars>>

CodecNext ==
    \/ CodecSend
    \/ CodecSendBadEnd
    \/ CodecSendBadStart
    \/ CodecGarbage
    \/ CodecReceive

SpecCodec == CodecInit /\ [][CodecNext]_vars

\* SpecWide: both variants at the ends of their length ranges and one byte
\* beyond.  One frame is sent and received for every sender id, code and
\* payload below.
Zeros(n) == <<>> \o [i \in 1..n |-> 0]

WideIds == {<<>>, ServerId, Zeros(255)}
WideCodes == {<<>>, CodeSTAT, LongCode, Zeros(256)}
WideLens == {0, 1, 65019, 65020, 65529, 65530, 65535, 65536}

WideMenu ==
    {[id |-> id, code |-> code, payload |-> Zeros(n)] : id \in WideIds, code \in WideCodes, n \in WideLens}

WideInit ==
    /\ variant \in {"minimal", "extended"}
    /\ \E n \in {0, 256} : buf = Resize(<<>>, n)
    /\ wire = <<>>
    /\ txlog = <<>>
    /\ rxlog = <<>>
    /\ ServerIdle
    /\ PanelIdle
    /\ RegIdle
    /\ HarnessIdle

WideSend ==
    /\ txlog = <<>>
    /\ \E m \in WideMenu : Put("good", m, Encode(variant, m))

WideNext ==
    \/ WideSend
    \/ CodecReceive

SpecWide == WideInit /\ [][WideNext]_vars

-----------------------------------------------------------------------------
\* SpecLen: the extended variant on frames one of whose length fields has
\* been altered: the frame length, the id length, the code length or the
\* payload length.
LenMenu ==
    { [id |-> ServerId, code |-> CodeSTAT, payload |-> <<>>],
      [id |-> <<>>, code |-> CodePOWER, payload |-> <<1>>],
      [id |-> <<80>>, code |-> <<65>>, payload |-> <<0, 1, 0, 0, 165, 165>>] }

\* where the length fields of a message's frame are (first byte is 1)
LenFields(m) ==
    {3, 4, 5, 6 + Len(m.id), 7 + Len(m.id) + Len(m.code), 8 + Len(m.id) + Len(m.code)}

\* what a length byte is altered to
Altered(byte) == {0, 1, (byte + 1) % U8, (byte + U8 - 1) % U8, 255} \ {byte}

LenInit ==
    /\ variant = "extended"
    /\ \E n \in {0, 256} : buf = Resize(<<>>, n)
    /\ wire = <<>>
    /\ txlog = <<>>
    /\ rxlog = <<>>
    /\ ServerIdle
    /\ PanelIdle
    /\ RegIdle
    /\ HarnessIdle

LenSend == \E m \in LenMenu : Put("good", m, Encode(variant, m))

LenSendAltered ==
    \E m \in LenMenu :
        LET f == Encode(variant, m)
        IN  \E at \in LenFields(m) : \E byte \in Altered(f[at]) :
                Put("badlen", m, [f EXCEPT ![at] = byte])

LenNext ==
    \/ LenSend
    \/ LenSendAltered
    \/ CodecReceive

SpecLen == LenInit /\ [][LenNext]_vars

\* the frames sent up to item i were all well-formed
GoodPrefix(i) == \A j \in 1..i : txlog[j].kind = "good"

\* the items sent were well-formed frames, garbage, or frames whose start
\* sentinel is damaged (which the decoder is to skip as garbage)
OnlyStartNoise == \A i \in 1..Len(txlog) : txlog[i].kind \in {"good", "garbage", "badstart"}

GoodSent == {i \in 1..Len(txlog) : txlog[i].kind = "good"}

\* C1: in the minimal variant, a frame written for (code, payload) and read
\* back over a reliable stream with a buffer of at least three bytes gives
\* success with exactly that code and that payload; since the stream is
\* reliable, the sequence of receives equals the sequence of sends.
C1_MinimalRoundTrip ==
    variant = "minimal" =>
        /\ \A i \in 1..Len(rxlog) :
              (i <= Len(txlog) /\ GoodPrefix(i)) =>
                  /\ rxlog[i].res = "ok"
                  /\ rxlog[i].code = txlog[i].code
                  /\ rxlog[i].payload = txlog[i].payload
        /\ (Len(rxlog) < Len(txlog) /\ GoodPrefix(Len(rxlog) + 1)) =>
              LET r == UnframeMessage(wire, buf)
              IN  /\ r.res = "ok"
                  /\ r.code = txlog[Len(rxlog) + 1].code
                  /\ r.payload = txlog[Len(rxlog) + 1].payload

\* C1 witness: a three-byte buffer has received a 255-byte code and then a
\* payload longer than one length byte can count
C1_Witness ==
    /\ variant = "minimal"
    /\ Len(rxlog) = 2
    /\ rxlog[1].res = "ok" /\ rxlog[1].code = LongCode
    /\ rxlog[2].res = "ok" /\ rxlog[2].payload = LongPayload /\ rxlog[2].code = <<>>
    /\ Len(buf) > Len(LongPayload)

\* C2: bytes that are not the start sentinel at the frame-start position are
\* discarded and reading continues: receive never returns an error because
\* of them, and a valid frame behind a garbage prefix of any length is
\* returned (so a receiver that has nothing more to return has returned
\* every valid frame that was sent).
C2_StartResync ==
    OnlyStartNoise =>
        /\ \A i \in 1..Len(rxlog) : rxlog[i].res = "ok"
        /\ Decode(variant, wire, buf).res = "io" =>
              Cardinality({i \in 1..Len(rxlog) : rxlog[i].res = "ok"}) = Cardinality(GoodSent)

-----------------------------------------------------------------------------
(* EmulationClock, Register<u32> and FlipFlop (simple-tokio register.rs).  *)
(* Virtual time is a pair: whole seconds s and units u of 100 ns below one *)
(* second, so that the 1e6 s advance of a power change and the 7.2 us of   *)
(* a timer step are both exact.  A glow is a fixed-point fraction of ONE.  *)

ONE == 1000 * 1000              \* glow 1.0
UNITS_PER_SEC == 10 * ONE       \* 100 ns units in one second
CLOCK_PERIOD == 3               \* 0.30e-6 s
ALPHA_PER_UNIT == 3             \* (100 ns / LAMP_PERSISTENCE) * ONE

\* EmulationClock::new
ClockNew(start) == [s |-> start, u |-> 0]

\* an advance that stores its argument instead of adding it
AdvanceStore(t, secs, units) == [s |-> secs, u |-> units]

\* EmulationClock::advance
Advance(t, secs, units) ==
    LET u == t.u + units
    IN  [s |-> t.s + secs + u \div UNITS_PER_SEC, u |-> u % UNITS_PER_SEC]

\* floor(g * m / ONE) without leaving 32 bits
MulScale(g, m) ==
    IF g = 0 THEN 0
    ELSE IF g = ONE THEN m
    ELSE LET gh == g \div 1000
             gl == g % 1000
             mh == m \div 1000
             ml == m % 1000
         IN  gh * mh + (((gh * ml + gl * mh) * 1000 + gl * ml) \div ONE)

\* an alpha that leaves beta out: elapsed / LAMP_PERSISTENCE only
AlphaNoBeta(this_tick, last_tick, beta) ==
    LET ds == this_tick.s - last_tick.s
        du == this_tick.u - last_tick.u
    IN  IF ds > 1 THEN ONE
        ELSE
        LET raw == ds * UNITS_PER_SEC + du
            elapsed == IF raw < CLOCK_PERIOD THEN CLOCK_PERIOD ELSE raw
            a == elapsed * ALPHA_PER_UNIT
        IN  IF a >= ONE THEN ONE ELSE a

\* alpha = min(max(this_tick - last_tick, CLOCK_PERIOD) / LAMP_PERSISTENCE + beta, 1.0)
\* beta is given as a fraction of ONE
Alpha(this_tick, last_tick, beta) ==
    LET ds == this_tick.s - last_tick.s
        du == this_tick.u - last_tick.u
    IN  IF ds > 1 THEN ONE
        ELSE
        LET raw == ds * UNITS_PER_SEC + du
            elapsed == IF raw < CLOCK_PERIOD THEN CLOCK_PERIOD ELSE raw
            a == elapsed * ALPHA_PER_UNIT + beta
        IN  IF a >= ONE THEN ONE ELSE a

Bit(v, i) == (v \div (2 ^ i)) % 2

GlowStep(g, bit, alpha) ==
    IF bit = 0 THEN MulScale(g, ONE - alpha) ELSE MulScale(g, ONE - alpha) + alpha

\* Register::new
RegisterNew(bits, now) ==
    [bits |-> bits, last_tick |-> now, overflow |-> FALSE, value |-> 0,
     glow |-> <<>> \o [i \in 1..bits |-> 0]]

Mask(r) == 2 ^ r.bits - 1
PowerMask(r) == 2 ^ r.bits
SignMask(r) == 2 ^ (r.bits - 1)

\* Register::update_glow
UpdateGlow(r, now, beta) ==
    LET alpha == Alpha(now, r.last_tick, beta)
    IN  [r EXCEPT !.last_tick = now,
                  !.glow = <<>> \o [i \in 1..Len(r.glow) |->
                                      GlowStep(r.glow[i], Bit(r.value, i - 1), alpha)]]

\* a set that stores the value as it is given
RegSetUnmasked(r, now, value) == UpdateGlow([r EXCEPT !.value = value], now, 0)

\* Register::set
RegSet(r, now, value) == UpdateGlow([r EXCEPT !.value = value % PowerMask(r)], now, 0)

\* an add that stores in overflow what this addition found
RegAddFlagsAfresh(r, now, value) ==
    LET augend == r.value
        result == augend + value
        sign(x) == (x \div SignMask(r)) % 2
        ovf == sign(augend) = sign(value) /\ sign(value) # sign(result)
    IN  UpdateGlow([r EXCEPT !.value = result % PowerMask(r), !.overflow = ovf], now, 0)

\* Register::add
RegAdd(r, now, value) ==
    LET augend == r.value
        result == augend + value
        sign(x) == (x \div SignMask(r)) % 2
        ovf == sign(augend) = sign(value) /\ sign(value) # sign(result)
    IN  UpdateGlow([r EXCEPT !.value = result % PowerMask(r),
                             !.overflow = r.overflow \/ ovf], now, 0)

\* Register::add_unsigned
RegAddUnsigned(r, now, value) ==
    LET augend == r.value
        result == augend + value
        power(x) == (x \div PowerMask(r)) % 2
        ovf == power(value) # power(result)
    IN  UpdateGlow([r EXCEPT !.value = result % PowerMask(r),
                             !.overflow = r.overflow \/ ovf], now, 0)

\* a negate that masks its result
RegNegateMasked(r, now) ==
    UpdateGlow([r EXCEPT !.value = (PowerMask(r) - r.value) % PowerMask(r)], now, 0)

\* Register::negate: power_mask - value, stored as it is
RegNegate(r, now) == UpdateGlow([r EXCEPT !.value = PowerMask(r) - r.value], now, 0)

\* FlipFlop::new
FlipFlopNew(now) == [last_tick |-> now, value |-> FALSE, glow |-> 0]

\* FlipFlop::update_glow
FFUpdateGlow(f, now, beta) ==
    LET alpha == Alpha(now, f.last_tick, beta)
    IN  [f EXCEPT !.last_tick = now,
                  !.glow = GlowStep(f.glow, IF f.value THEN 1 ELSE 0, alpha)]

\* FlipFlop::set
FFSet(f, now, value) == FFUpdateGlow([f EXCEPT !.value = value], now, 0)

-----------------------------------------------------------------------------
(* ServerState and the operations of simple-tokio server.rs on it.         *)

TIMER_PERIOD == 72              \* 7.2e-6 s, in 100 ns units
POWER_ADVANCE == 1000000        \* eclock.advance(1e6), in seconds
BATCH_SIZE == 500               \* increments per wake cycle
A_BITS == 30
BOOT_VALUE == 1234567
POWER_SEED == 7654321
RESET_POLLS == 15

\* main: the ServerState literal, then state.a_reg.set(1234567)
ServerStateNew ==
    LET eclock == ClockNew(0)
    IN  [last_clock |-> 0,
         eclock |-> eclock,
         reset_countdown |-> 0,
         power_on |-> FALSE,
         no_protn |-> FALSE,
         plotter_manual |-> FALSE,
         manual_state |-> FALSE,
         reset_state |-> FALSE,
         transfer_glow |-> 0,
         air_cond_glow |-> 0,
         error_glow |-> 0,
         tag_glow |-> 0,
         type_hold_glow |-> 0,
         bs_parity_glow |-> 0,
         busy_ff |-> FlipFlopNew(eclock),
         a_reg |-> RegSet(RegisterNew(A_BITS, eclock), eclock, BOOT_VALUE)]

\* a tick that sets busy on an odd count and leaves the clock where it is
TickStepOddBusy(st) ==
    LET count == st.a_reg.value
    IN  [st EXCEPT !.a_reg = RegAdd(st.a_reg, st.eclock, 1),
                   !.busy_ff = FFSet(st.busy_ff, st.eclock, count % 2 = 1)]

\* simple_cpu: one iteration of the for loop
TickStep(st) ==
    LET count == st.a_reg.value
        a1 == RegAdd(st.a_reg, st.eclock, 1)
        b1 == FFSet(st.busy_ff, st.eclock, count % 2 = 0)
    IN  [st EXCEPT !.a_reg = a1,
                   !.busy_ff = b1,
                   !.eclock = Advance(st.eclock, 0, TIMER_PERIOD)]

\* simple_cpu: n iterations of the for loop, one after the other.  The count
\* is halved so that the evaluation stays shallow; the ticks never change
\* power_on, so the test on it only makes the first half be computed before
\* the second half starts from it.
RECURSIVE TickSteps(_, _)
TickSteps(st, n) ==
    IF n = 0 THEN st
    ELSE IF n = 1 THEN TickStep(st)
    ELSE LET half == TickSteps(st, n \div 2)
         IN  IF half.power_on = st.power_on THEN TickSteps(half, n - n \div 2) ELSE st

\* a power change that leaves the toggles as they are
ChangePowerKeepToggles(st, on_off) == [st EXCEPT !.power_on = on_off]

\* a change_power without the test on the present power state
ChangePowerAlways(st, on_off) ==
    LET b1 == FFSet(st.busy_ff, st.eclock, FALSE)
        a1 == IF on_off THEN RegAdd(st.a_reg, st.eclock, POWER_SEED)
               ELSE RegSet(st.a_reg, st.eclock, 0)
        now == Advance(st.eclock, POWER_ADVANCE, 0)
    IN  [st EXCEPT !.power_on = on_off,
                   !.eclock = now,
                   !.a_reg = UpdateGlow(a1, now, ONE),
                   !.busy_ff = FFUpdateGlow(b1, now, ONE)]

\* change_power, the state part (the status push follows it)
ChangePower(st, on_off) ==
    IF st.power_on # on_off
    THEN LET b1 == FFSet(st.busy_ff, st.eclock, FALSE)
             a1 == IF on_off THEN RegAdd(st.a_reg, st.eclock, POWER_SEED)
                    ELSE RegSet(st.a_reg, st.eclock, 0)
             now == Advance(st.eclock, POWER_ADVANCE, 0)
         IN  [st EXCEPT !.power_on = on_off,
                        !.manual_state = FALSE,
                        !.plotter_manual = FALSE,
                        !.no_protn = FALSE,
                        !.reset_state = FALSE,
                        !.transfer_glow = 0,
                        !.air_cond_glow = 0,
                        !.error_glow = 0,
                        !.tag_glow = 0,
                        !.type_hold_glow = 0,
                        !.bs_parity_glow = 0,
                        !.eclock = now,
                        !.a_reg = UpdateGlow(a1, now, ONE),
                        !.busy_ff = FFUpdateGlow(b1, now, ONE)]
    ELSE st

\* send_status: the frames of one status push, in the order sent
StatusFrames(st) ==
    << [code |-> "POWER", payload |-> st.power_on],
       [code |-> "NOPRO", payload |-> st.no_protn],
       [code |-> "MANL", payload |-> st.manual_state],
       [code |-> "RESET", payload |-> st.reset_state],
       [code |-> "PLTMN", payload |-> st.plotter_manual],
       [code |-> "XFER", payload |-> st.transfer_glow],
       [code |-> "AC", payload |-> st.air_cond_glow],
       [code |-> "ERROR", payload |-> st.error_glow],
       [code |-> "TAG", payload |-> st.tag_glow],
       [code |-> "THOLD", payload |-> st.type_hold_glow],
       [code |-> "BSPAR", payload |-> st.bs_parity_glow],
       [code |-> "BUSY", payload |-> st.busy_ff.glow],
       [code |-> "A", payload |-> st.a_reg.glow],
       [code |-> "ESTAT", payload |-> <<>>] >>

StatusLen == Len(StatusFrames(ServerStateNew))

CodeINIT == <<73, 78, 73, 84>>
CodeCLEAR == <<67, 76, 69, 65, 82>>
CodeRESET == <<82, 69, 83, 69, 84>>
CodeMANL == <<77, 65, 78, 76>>
CodePLTMN == <<80, 76, 84, 77, 78>>
CodeNOPRO == <<78, 79, 80, 82, 79>>
CodeSHUT == <<83, 72, 85, 84>>
CodeKILL == <<75, 73, 76, 76>>

\* std::str::from_utf8, for the codes the model sends: ASCII is valid, a lone
\* byte of 0x80 or more is not
Utf8Valid(code) == \A i \in 1..Len(code) : code[i] < 128

\* a deserializer that never fails: any byte but 0 is true, no byte is false
DeserializeBoolLenient(payload) ==
    [ok |-> TRUE, val |-> Len(payload) >= 1 /\ payload[1] # 0]

\* bincode deserialize::<bool>: one byte, 0 or 1; anything else is an error
DeserializeBool(payload) ==
    IF Len(payload) >= 1 /\ payload[1] \in {0, 1}
    THEN [ok |-> TRUE, val |-> payload[1] = 1]
    ELSE [ok |-> FALSE, val |-> FALSE]

\* a countdown that clears reset_state one poll late: on the poll that finds
\* the countdown already at zero
StatCountdownLate(st) ==
    IF st.reset_countdown > 0
    THEN [st EXCEPT !.reset_countdown = st.reset_countdown - 1]
    ELSE [st EXCEPT !.reset_state = FALSE]

\* a countdown that never clears reset_state
StatCountdownKeepsFlag(st) ==
    IF st.reset_countdown > 0
    THEN [st EXCEPT !.reset_countdown = st.reset_countdown - 1]
    ELSE st

\* panel_receiver, STAT arm before the push
StatCountdown(st) ==
    IF st.reset_countdown > 0
    THEN [st EXCEPT !.reset_countdown = st.reset_countdown - 1,
                    !.reset_state = IF st.reset_countdown - 1 = 0 THEN FALSE
                                    ELSE st.reset_state]
    ELSE st

\* a receiver loop that goes on to the next frame whatever receive returned
HandleLenient(st, r) == [state |-> st, push |-> FALSE, running |-> TRUE, err |-> FALSE]

\* arms that end the loop with an error on a code they do not know
Rejected(same) == [same EXCEPT !.running = FALSE, !.err = TRUE]

\* panel_receiver: the Ok(bad_code) and Err(e) arms of the match on the code
\* only print
Unrecognized(same) == same

\* a receiver that answers every frame with a status push
HandlePushesAlways(st, r) == [state |-> st, push |-> TRUE, running |-> TRUE, err |-> FALSE]

\* panel_receiver: the match on one result of receive_sync.  Gives the new
\* ServerState, whether a status push follows, whether the loop goes on
\* (running) and whether the function returned Err.
Handle(st, r) ==
    LET same == [state |-> st, push |-> FALSE, running |-> TRUE, err |-> FALSE]
        toggle(field) ==
            LET on_off == DeserializeBool(r.payload)
            IN  IF on_off.ok THEN [same EXCEPT !.state = [st EXCEPT ![field] = on_off.val]]
                ELSE [same EXCEPT !.running = FALSE, !.err = TRUE]
    IN  IF r.res = "err" THEN [same EXCEPT !.running = FALSE, !.err = TRUE]
        ELSE IF ~Utf8Valid(r.code) THEN Unrecognized(same)
        ELSE IF r.code = CodeSTAT THEN [same EXCEPT !.state = StatCountdown(st), !.push = TRUE]
        ELSE IF r.code = CodeINIT THEN same
        ELSE IF r.code = CodeCLEAR
            THEN [same EXCEPT !.state = [st EXCEPT !.a_reg = RegSet(st.a_reg, st.eclock, 0)]]
        ELSE IF r.code = CodeRESET
            THEN [same EXCEPT !.state = [st EXCEPT !.reset_state = TRUE,
                                                   !.reset_countdown = RESET_POLLS]]
        ELSE IF r.code = CodeMANL THEN toggle("manual_state")
        ELSE IF r.code = CodePLTMN THEN toggle("plotter_manual")
        ELSE IF r.code = CodeNOPRO THEN toggle("no_protn")
        ELSE IF r.code = CodePOWER
            THEN LET on_off == DeserializeBool(r.payload)
                 IN  IF on_off.ok
                     THEN [same EXCEPT !.state = ChangePower(st, on_off.val),
                                       !.push = (st.power_on # on_off.val)]
                     ELSE [same EXCEPT !.running = FALSE, !.err = TRUE]
        ELSE IF r.code = CodeSHUT THEN [same EXCEPT !.running = FALSE]
        ELSE Unrecognized(same)

\* an Err arm that treats every io::Error alike, as fatal
HandleIoAllFatal(st, kind) ==
    [state |-> st, push |-> FALSE, running |-> FALSE, err |-> TRUE]

\* panel_receiver: the Err arm for an io::Error of the kind given
HandleIo(st, kind) ==
    LET same == [state |-> st, push |-> FALSE, running |-> TRUE, err |-> FALSE]
    IN  IF kind \in {"TimedOut", "WouldBlock"} THEN same
        ELSE IF kind = "UnexpectedEof" THEN [same EXCEPT !.running = FALSE]
        ELSE [same EXCEPT !.running = FALSE, !.err = TRUE]

\* panel_receiver: how the loop iteration ends (the run_flag test after the match)
KillFrame == [code |-> "KILL", payload |-> <<>>]

ConnAfter(h, flag) ==
    IF h.err THEN "failed" ELSE IF ~h.running \/ ~flag THEN "done" ELSE "running"

SentAfter(h, flag) ==
    (IF h.push THEN StatusFrames(h.state) ELSE <<>>)
        \o (IF ~h.err /\ ~flag THEN <<KillFrame>> ELSE <<>>)

-----------------------------------------------------------------------------
(* The simple-tokio server as a state machine.  In Spec every critical     *)
(* section (one dispatched frame with its status push, one batch of the    *)
(* tick loop) is one step; SpecLock below takes the same code one frame    *)
(* sent and one increment at a time, with the mutex explicit.              *)

MaxCtl == 2         \* control (non-STAT) frames and connection faults in one run
MaxBatches == 1     \* wake cycles of the tick loop with power on

PanelId == <<80>>

Input(kind, code, payload) == [kind |-> kind, code |-> code, payload |-> payload]

\* what a client may put on the socket: every frame of the protocol, frames
\* the server does not know, payloads that are no bool, and frames whose end
\* sentinel is damaged
ClientInputs ==
    { Input("good", c, <<>>) : c \in {CodeSTAT, CodeINIT, CodeCLEAR, CodeRESET, CodeSHUT} }
    \cup { Input("good", c, <<b>>) :
              c \in {CodePOWER, CodeNOPRO, CodeMANL, CodePLTMN}, b \in {0, 1} }
    \cup { Input("unknown", CodeKILL, <<>>), Input("unknown", <<255>>, <<>>) }
    \cup { Input("badbool", CodePOWER, <<2>>), Input("badbool", CodeNOPRO, <<>>),
           Input("badbool", CodeMANL, <<2>>), Input("badbool", CodePLTMN, <<>>) }
    \cup { Input("badend", CodeSTAT, <<>>), Input("badend", CodePOWER, <<1>>) }

BadEnd(f) == SubSeq(f, 1, Len(f) - 2) \o <<165, 0>>

\* the bytes of an input on the wire, as the panel's MessageSender writes them
Bytes(in) ==
    LET f == Send(PanelId, in.code, in.payload)
    IN  IF in.kind = "badend" THEN BadEnd(f) ELSE f

\* panel_receiver: let mut buf = vec![0_u8; 256]
ReceiverBuf == Resize(<<>>, 256)

BatchesDone(st) == st.eclock.u \div (BATCH_SIZE * TIMER_PERIOD)

IsStat(in) == in.kind = "good" /\ in.code = CodeSTAT

\* STAT frames counted since the latest RESET, up to two past the countdown
PollsAfter(in) ==
    IF in.kind # "good" THEN polls
    ELSE IF in.code = CodeRESET THEN 0
    ELSE IF in.code = CodePOWER THEN -1
    ELSE IF in.code = CodeSTAT /\ polls >= 0 /\ polls < RESET_POLLS + 2 THEN polls + 1
    ELSE polls

ServerInit ==
    /\ state = ServerStateNew
    /\ run_flag = TRUE
    /\ conn = "none"
    /\ out = <<>>
    /\ nctl = 0
    /\ last = NoInput
    /\ polls = -1
    /\ lock = {}
    /\ cpu_pc = "check"
    /\ cpu_i = 0
    /\ push_k = 0
    /\ poisoned = FALSE

CodecIdle ==
    /\ variant = "none"
    /\ wire = <<>>
    /\ buf = <<>>
    /\ txlog = <<>>
    /\ rxlog = <<>>

Init == ServerInit /\ CodecIdle /\ PanelIdle /\ RegIdle /\ HarnessIdle

\* main: accept_sync gives a socket, a panel_receiver thread is spawned and joined
Accept ==
    /\ run_flag
    /\ conn \in {"none", "done", "failed", "panicked"}
    /\ conn' = "running"
    /\ out' = <<>>
    /\ last' = NoInput
    /\ UNCHANGED <<state, run_flag, nctl, polls, lvars, cvars, pvars, rvars, hvars>>

\* panel_receiver: one iteration of the while loop on the frame read.  A
\* well-formed frame takes the lock first; state.lock().unwrap() panics when
\* the mutex is poisoned.
Dispatch ==
    /\ conn = "running"
    /\ \E in \in ClientInputs :
        LET r == Receive(Bytes(in), ReceiverBuf)
            h == Handle(state, r)
        IN  /\ r.res # "io"
            /\ IsStat(in) \/ nctl < MaxCtl
            /\ nctl' = IF IsStat(in) THEN nctl ELSE nctl + 1
            /\ IF poisoned /\ r.res = "ok"
               THEN /\ state' = state
                    /\ out' = <<>>
                    /\ conn' = "panicked"
                    /\ last' = [in EXCEPT !.kind = "poisoned"]
                    /\ polls' = polls
               ELSE /\ state' = h.state
                    /\ out' = SentAfter(h, run_flag)
                    /\ conn' = ConnAfter(h, run_flag)
                    /\ last' = in
                    /\ polls' = PollsAfter(in)
    /\ UNCHANGED <<run_flag, lvars, cvars, pvars, rvars, hvars>>

\* frames of a status push that were written before the write to a peer that
\* is gone failed
PushCuts == {0, StatusLen - 1}

\* panel_receiver: a frame that asks for a status push is dispatched, and the
\* client has disconnected: a send_sync of send_status returns Err and its
\* expect panics while the guard of the mutex is held
DispatchPeerGone ==
    /\ conn = "running"
    /\ ~poisoned
    /\ \E in \in ClientInputs, k \in PushCuts :
        LET r == Receive(Bytes(in), ReceiverBuf)
            h == Handle(state, r)
        IN  /\ r.res = "ok"
            /\ h.push
            /\ nctl < MaxCtl
            /\ nctl' = nctl + 1
            /\ last' = [in EXCEPT !.kind = "peergone"]
            /\ state' = h.state
            /\ out' = SubSeq(StatusFrames(h.state), 1, k)
            /\ conn' = "panicked"
            /\ polls' = PollsAfter(in)
    /\ poisoned' = TRUE
    /\ UNCHANGED <<run_flag, lock, cpu_pc, cpu_i, push_k, cvars, pvars, rvars, hvars>>

\* io::Error kinds a read of the socket ends with: the peer closed the
\* stream, or the connection broke (receive_sync sets no read timeout)
IoKinds == {"UnexpectedEof", "ConnectionReset"}

\* the kinds a read gets when a read timeout expires
TimeoutKinds == {"TimedOut", "WouldBlock"}

\* panel_receiver: one iteration of the while loop on a read that failed
ReadFault ==
    /\ conn = "running"
    /\ nctl < MaxCtl
    /\ nctl' = nctl + 1
    /\ \E kind \in IoKinds :
        LET h == HandleIo(state, kind)
        IN  /\ state' = h.state
            /\ out' = SentAfter(h, run_flag)
            /\ conn' = ConnAfter(h, run_flag)
            /\ last' = Input(kind, <<>>, <<>>)
    /\ UNCHANGED <<run_flag, polls, lvars, cvars, pvars, rvars, hvars>>

\* simple_cpu: one turn of the loop with power on
CpuBatch ==
    /\ cpu_pc = "check"
    /\ run_flag
    /\ ~poisoned
    /\ state.power_on
    /\ BatchesDone(state) < MaxBatches
    /\ state' = TickSteps(state, BATCH_SIZE)
    /\ UNCHANGED <<run_flag, conn, out, nctl, last, polls, lvars, cvars, pvars, rvars, hvars>>

\* simple_cpu: one turn of the loop with power off (sleeps two seconds)
CpuIdle ==
    /\ cpu_pc = "check"
    /\ run_flag
    /\ ~poisoned
    /\ ~state.power_on
    /\ UNCHANGED vars

\* simple_cpu: state.lock().unwrap() on the poisoned mutex panics
CpuPanic ==
    /\ cpu_pc = "check"
    /\ run_flag
    /\ poisoned
    /\ cpu_pc' = "panicked"
    /\ UNCHANGED <<svars, lock, cpu_i, push_k, poisoned, cvars, pvars, rvars, hvars>>

Next ==
    \/ Accept
    \/ Dispatch
    \/ DispatchPeerGone
    \/ ReadFault
    \/ CpuBatch
    \/ CpuIdle
    \/ CpuPanic

Spec == Init /\ [][Next]_vars

-----------------------------------------------------------------------------
(* SpecLock: the same server with the Mutex<ServerState> explicit.  lock   *)
(* is the set of threads inside a critical section; a status push sends    *)
(* one frame per step and the tick loop makes one increment per step.      *)

\* frames the client sends in SpecLock
LockInputs ==
    { Input("good", CodeSTAT, <<>>), Input("good", CodeCLEAR, <<>>),
      Input("good", CodePOWER, <<0>>), Input("good", CodePOWER, <<1>>) }

\* a lock that is granted whoever holds it
MayLockAlways == TRUE

\* state.lock().unwrap() returns only when no thread holds the mutex
MayLock == lock = {}

\* panel_receiver: a frame is read, the lock taken and the match arm run up to
\* its first send; an arm without a push also ends the iteration
LockDispatch ==
    /\ conn = "running"
    /\ "conn" \notin lock
    /\ MayLock
    /\ \E in \in LockInputs :
        LET r == Receive(Bytes(in), ReceiverBuf)
            h == Handle(state, r)
        IN  /\ IsStat(in) \/ nctl < MaxCtl
            /\ state' = h.state
            /\ nctl' = IF IsStat(in) THEN nctl ELSE nctl + 1
            /\ last' = in
            /\ polls' = PollsAfter(in)
            /\ IF h.push
               THEN /\ lock' = lock \cup {"conn"}
                    /\ out' = <<>>
                    /\ conn' = "running"
               ELSE /\ lock' = lock
                    /\ out' = SentAfter(h, run_flag)
                    /\ conn' = ConnAfter(h, run_flag)
    /\ push_k' = 0
    /\ UNCHANGED <<run_flag, cpu_pc, cpu_i, poisoned, cvars, pvars, rvars, hvars>>

\* send_status: one send_sync
LockSendFrame ==
    /\ "conn" \in lock
    /\ push_k < StatusLen
    /\ out' = Append(out, StatusFrames(state)[push_k + 1])
    /\ push_k' = push_k + 1
    /\ UNCHANGED <<state, run_flag, conn, nctl, last, polls, lock, cpu_pc, cpu_i, poisoned, cvars, pvars, rvars, hvars>>

\* panel_receiver: the guard is dropped at the end of the arm, then run_flag is tested
LockPushEnd ==
    /\ "conn" \in lock
    /\ push_k = StatusLen
    /\ lock' = lock \ {"conn"}
    /\ push_k' = 0
    /\ out' = IF run_flag THEN out ELSE Append(out, KillFrame)
    /\ conn' = IF run_flag THEN "running" ELSE "done"
    /\ UNCHANGED <<state, run_flag, nctl, last, polls, cpu_pc, cpu_i, poisoned, cvars, pvars, rvars, hvars>>

\* simple_cpu: the lock is taken and power is off: drop(state), sleep
LockCpuIdle ==
    /\ cpu_pc = "check"
    /\ run_flag
    /\ MayLock
    /\ ~state.power_on
    /\ cpu_pc' = "sleep"
    /\ UNCHANGED <<svars, lock, cpu_i, push_k, poisoned, cvars, pvars, rvars, hvars>>

\* simple_cpu: the lock is taken and power is on: the for loop begins
LockCpuBegin ==
    /\ cpu_pc = "check"
    /\ run_flag
    /\ MayLock
    /\ state.power_on
    /\ BatchesDone(state) < MaxBatches
    /\ lock' = lock \cup {"cpu"}
    /\ cpu_pc' = "batch"
    /\ cpu_i' = 0
    /\ UNCHANGED <<svars, push_k, poisoned, cvars, pvars, rvars, hvars>>

\* simple_cpu: one iteration of the for loop
LockCpuStep ==
    /\ cpu_pc = "batch"
    /\ cpu_i < BATCH_SIZE
    /\ state' = TickStep(state)
    /\ cpu_i' = cpu_i + 1
    /\ UNCHANGED <<run_flag, conn, out, nctl, last, polls, lock, cpu_pc, push_k, poisoned, cvars, pvars, rvars, hvars>>

\* simple_cpu: drop(state) after the for loop, then sleep
LockCpuEnd ==
    /\ cpu_pc = "batch"
    /\ cpu_i = BATCH_SIZE
    /\ lock' = lock \ {"cpu"}
    /\ cpu_pc' = "sleep"
    /\ cpu_i' = 0
    /\ UNCHANGED <<svars, push_k, poisoned, cvars, pvars, rvars, hvars>>

\* simple_cpu: the sleep is over
LockCpuWake ==
    /\ cpu_pc = "sleep"
    /\ cpu_pc' = "check"
    /\ UNCHANGED <<svars, lock, cpu_i, push_k, poisoned, cvars, pvars, rvars, hvars>>

\* simple_cpu: running is false at the top of the loop
CpuExit ==
    /\ cpu_pc = "check"
    /\ ~run_flag
    /\ cpu_pc' = "exit"
    /\ UNCHANGED <<svars, lock, cpu_i, push_k, poisoned, cvars, pvars, rvars, hvars>>

\* the Ctrl-C handler
CtrlC ==
    /\ run_flag
    /\ run_flag' = FALSE
    /\ UNCHANGED <<state, conn, out, nctl, last, polls, lvars, cvars, pvars, rvars, hvars>>

LockNext ==
    \/ Accept
    \/ LockDispatch
    \/ LockSendFrame
    \/ LockPushEnd
    \/ LockCpuIdle
    \/ LockCpuBegin
    \/ LockCpuStep
    \/ LockCpuEnd
    \/ LockCpuWake
    \/ CpuExit
    \/ CtrlC

SpecLock == Init /\ [][LockNext]_vars

\* SpecStop: SpecLock with the scheduling the code has.  The steps a server
\* thread takes on its own (the sends of a push, the tick loop's steps, its
\* exit) are taken when they stay enabled: a thread that can run does run.
\* What waits on the outside is not fair: receive_sync is
\* task::block_on(self.receive(buf)) with no timer, so LockDispatch happens
\* only when the peer sends a frame, Accept only when a client connects, and
\* CtrlC only when the user presses it.
ServerProgress ==
    /\ WF_vars(LockSendFrame)
    /\ WF_vars(LockPushEnd)
    /\ WF_vars(LockCpuIdle)
    /\ WF_vars(LockCpuBegin)
    /\ WF_vars(LockCpuStep)
    /\ WF_vars(LockCpuEnd)
    /\ WF_vars(LockCpuWake)
    /\ WF_vars(CpuExit)

SpecStop == Init /\ [][LockNext]_vars /\ ServerProgress

-----------------------------------------------------------------------------
(* SpecSys: the server of the simple-system prototype (minimal frames, a   *)
(* read timeout, a tick loop spawned with each connection).  Its           *)
(* ServerState has no reset_countdown; change_power and the register       *)
(* module are the same code as in simple-tokio.                            *)

SYS_BATCH_SIZE == 1000

\* main: the ServerState literal, then state.a_reg.set(1234567)
SysStateNew ==
    LET eclock == ClockNew(0)
    IN  [last_clock |-> 0,
         eclock |-> eclock,
         power_on |-> FALSE,
         no_protn |-> FALSE,
         plotter_manual |-> FALSE,
         manual_state |-> FALSE,
         reset_state |-> FALSE,
         transfer_glow |-> 0,
         air_cond_glow |-> 0,
         error_glow |-> 0,
         tag_glow |-> 0,
         type_hold_glow |-> 0,
         bs_parity_glow |-> 0,
         busy_ff |-> FlipFlopNew(eclock),
         a_reg |-> RegSet(RegisterNew(A_BITS, eclock), eclock, BOOT_VALUE)]

\* send_status: the frames of one status push, in the order sent
SysStatusFrames(st) ==
    << [code |-> "POWER", payload |-> st.power_on],
       [code |-> "NOPRO", payload |-> st.no_protn],
       [code |-> "MANL", payload |-> st.manual_state],
       [code |-> "PLTMN", payload |-> st.plotter_manual],
       [code |-> "XFER", payload |-> st.transfer_glow],
       [code |-> "AC", payload |-> st.air_cond_glow],
       [code |-> "ERROR", payload |-> st.error_glow],
       [code |-> "TAG", payload |-> st.tag_glow],
       [code |-> "THOLD", payload |-> st.type_hold_glow],
       [code |-> "BSPAR", payload |-> st.bs_parity_glow],
       [code |-> "BUSY", payload |-> st.busy_ff.glow],
       [code |-> "A", payload |-> st.a_reg.glow],
       [code |-> "ESTAT", payload |-> <<>>] >>

\* panel_receiver: the match on one result of unframe_message
SysHandle(st, r) ==
    LET same == [state |-> st, push |-> FALSE, running |-> TRUE, err |-> FALSE]
        toggle(field) ==
            LET on_off == DeserializeBool(r.payload)
            IN  IF on_off.ok THEN [same EXCEPT !.state = [st EXCEPT ![field] = on_off.val]]
                ELSE [same EXCEPT !.running = FALSE, !.err = TRUE]
    IN  IF r.res = "err" THEN [same EXCEPT !.running = FALSE, !.err = TRUE]
        ELSE IF ~Utf8Valid(r.code) THEN same
        ELSE IF r.code = CodeSTAT THEN [same EXCEPT !.push = TRUE]
        ELSE IF r.code \in {CodeINIT, CodeCLEAR, CodeRESET} THEN same
        ELSE IF r.code = CodeMANL THEN toggle("manual_state")
        ELSE IF r.code = CodePLTMN THEN toggle("plotter_manual")
        ELSE IF r.code = CodeNOPRO THEN toggle("no_protn")
        ELSE IF r.code = CodePOWER
            THEN LET on_off == DeserializeBool(r.payload)
                 IN  IF on_off.ok
                     THEN [same EXCEPT !.state = ChangePower(st, on_off.val),
                                       !.push = (st.power_on # on_off.val)]
                     ELSE [same EXCEPT !.running = FALSE, !.err = TRUE]
        ELSE IF r.code = CodeSHUT THEN [same EXCEPT !.running = FALSE]
        ELSE same

\* panel_receiver: the run_flag test after the match sends SHUT
ShutFrame == [code |-> "SHUT", payload |-> <<>>]

SysSentAfter(h, flag) ==
    (IF h.push THEN SysStatusFrames(h.state) ELSE <<>>)
        \o (IF ~h.err /\ ~flag THEN <<ShutFrame>> ELSE <<>>)

\* the bytes of an input on the wire, as frame_message writes them
SysBytes(in) ==
    LET f == FrameMessage(in.code, in.payload)
    IN  IF in.kind = "badend" THEN BadEnd(f) ELSE f

SysBatchesDone(st) == st.eclock.u \div (SYS_BATCH_SIZE * TIMER_PERIOD)

SysInit ==
    /\ state = SysStateNew
    /\ run_flag = TRUE
    /\ conn = "none"
    /\ out = <<>>
    /\ nctl = 0
    /\ last = NoInput
    /\ polls = -1
    /\ lock = {}
    /\ cpu_pc = "none"
    /\ cpu_i = 0
    /\ push_k = 0
    /\ poisoned = FALSE
    /\ CodecIdle
    /\ PanelIdle
    /\ RegIdle
    /\ HarnessIdle

\* main: accept gives a stream; panel_receiver and simple_cpu are spawned and
\* both joined before the next accept
SysAccept ==
    /\ run_flag
    /\ conn \in {"none", "done", "failed"}
    /\ cpu_pc \in {"none", "exit"}
    /\ conn' = "running"
    /\ cpu_pc' = "check"
    /\ out' = <<>>
    /\ last' = NoInput
    /\ UNCHANGED <<state, run_flag, nctl, polls, lock, cpu_i, push_k, poisoned, cvars, pvars, rvars, hvars>>

\* panel_receiver: one iteration of the while loop on the frame read
SysDispatch ==
    /\ conn = "running"
    /\ \E in \in ClientInputs :
        LET r == UnframeMessage(SysBytes(in), ReceiverBuf)
            h == SysHandle(state, r)
        IN  /\ r.res # "io"
            /\ IsStat(in) \/ nctl < MaxCtl
            /\ state' = h.state
            /\ out' = SysSentAfter(h, run_flag)
            /\ conn' = ConnAfter(h, run_flag)
            /\ nctl' = IF IsStat(in) THEN nctl ELSE nctl + 1
            /\ last' = in
            /\ polls' = PollsAfter(in)
    /\ UNCHANGED <<run_flag, lvars, cvars, pvars, rvars, hvars>>

\* panel_receiver: the read timed out; the iteration ends with the run_flag test
SysTimeout ==
    /\ conn = "running"
    /\ \E kind \in TimeoutKinds :
        LET h == HandleIo(state, kind)
        IN  /\ state' = h.state
            /\ out' = IF run_flag THEN out ELSE SysSentAfter(h, run_flag)
            /\ conn' = ConnAfter(h, run_flag)
    /\ UNCHANGED <<run_flag, nctl, last, polls, lvars, cvars, pvars, rvars, hvars>>

\* panel_receiver: the read fails with another io::Error
SysReadFault ==
    /\ conn = "running"
    /\ nctl < MaxCtl
    /\ nctl' = nctl + 1
    /\ \E kind \in IoKinds :
        LET h == HandleIo(state, kind)
        IN  /\ state' = h.state
            /\ out' = SysSentAfter(h, run_flag)
            /\ conn' = ConnAfter(h, run_flag)
            /\ last' = Input(kind, <<>>, <<>>)
    /\ UNCHANGED <<run_flag, polls, lvars, cvars, pvars, rvars, hvars>>

\* simple_cpu: one turn of the while loop
SysCpuBatch ==
    /\ cpu_pc = "check"
    /\ run_flag
    /\ SysBatchesDone(state) < MaxBatches
    /\ state' = TickSteps(state, SYS_BATCH_SIZE)
    /\ UNCHANGED <<run_flag, conn, out, nctl, last, polls, lvars, cvars, pvars, rvars, hvars>>

SysNext ==
    \/ SysAccept
    \/ SysDispatch
    \/ SysTimeout
    \/ SysReadFault
    \/ SysCpuBatch
    \/ CpuExit
    \/ CtrlC

SpecSys == SysInit /\ [][SysNext]_vars

-----------------------------------------------------------------------------
(* SpecPanel: the receive loop of a panel, core_receiver of proto-system   *)
(* or proc_receiver of simple-system, fed with the frames a server may     *)
(* write.  A glow is kept as the four bytes of its f32.                    *)

MaxPanelFrames == 2     \* frames and read faults one panel run receives

CodeA == <<65>>
CodeBUSY == <<66, 85, 83, 89>>
CodeXFER == <<88, 70, 69, 82>>
CodeAC == <<65, 67>>
CodeERROR == <<69, 82, 82, 79, 82>>
CodeTAG == <<84, 65, 71>>
CodeTHOLD == <<84, 72, 79, 76, 68>>
CodeBSPAR == <<66, 83, 80, 65, 82>>
CodeESTAT == <<69, 83, 84, 65, 84>>

F32Zero == <<0, 0, 0, 0>>       \* 0.0_f32, little-endian
F32One == <<0, 0, 128, 63>>     \* 1.0_f32
F32Half == <<0, 0, 0, 63>>      \* 0.5_f32

\* bincode deserialize::<f32>: the first four bytes; fewer is an error
DeserializeF32(payload) ==
    IF Len(payload) >= 4
    THEN [ok |-> TRUE, val |-> SubSeq(payload, 1, 4)]
    ELSE [ok |-> FALSE, val |-> <<>>]

\* bincode deserialize::<Vec<f32>>: a u64 count, little-endian, then four
\* bytes for each element; too few bytes for the count or the elements is an error
DeserializeVecF32(payload) ==
    IF Len(payload) < 8 THEN [ok |-> FALSE, val |-> <<>>]
    ELSE
    LET small == \A i \in 3..8 : payload[i] = 0
        n == payload[1] + 256 * payload[2]
    IN  IF small /\ Len(payload) >= 8 + 4 * n
        THEN [ok |-> TRUE,
              val |-> <<>> \o [i \in 1..n |-> SubSeq(payload, 8 + 4 * i - 3, 8 + 4 * i)]]
        ELSE [ok |-> FALSE, val |-> <<>>]

\* bincode serialize of a Vec<f32>
SerializeVecF32(v) ==
    LET Flat[i \in 0..Len(v)] == IF i = 0 THEN <<>> ELSE Flat[i - 1] \o v[i]
    IN  <<Len(v) % 256, Len(v) \div 256, 0, 0, 0, 0, 0, 0>> \o Flat[Len(v)]

\* main: the PanelState the panel starts with
PanelStateNew ==
    [power_on |-> FALSE, no_protn |-> FALSE, plotter_manual |-> FALSE,
     manual_state |-> FALSE, reset_state |-> FALSE,
     busy_glow |-> F32Zero, transfer_glow |-> F32Zero, air_cond_glow |-> F32Zero,
     error_glow |-> F32Zero, tag_glow |-> F32Zero, type_hold_glow |-> F32Zero,
     bs_parity_glow |-> F32Zero, a_glow |-> <<F32Zero>>,
     clock |-> 0, next_status_clock |-> 0,
     status_request_count |-> 0]

\* the arms both receive loops have: a frame that carries a mirrored field.
\* The A arm clears a_glow before it deserializes.
MirrorCodes ==
    {CodeA, CodeBUSY, CodeXFER, CodeAC, CodeERROR, CodeTAG, CodeTHOLD, CodeBSPAR,
     CodeNOPRO, CodeMANL, CodePLTMN}

MirrorHandle(st, r) ==
    LET same == [state |-> st, running |-> TRUE, err |-> FALSE, events |-> <<>>]
        fail(s2) == [same EXCEPT !.state = s2, !.running = FALSE, !.err = TRUE]
        glow(field) ==
            LET g == DeserializeF32(r.payload)
            IN  IF g.ok THEN [same EXCEPT !.state = [st EXCEPT ![field] = g.val]] ELSE fail(st)
        toggle(field) ==
            LET b == DeserializeBool(r.payload)
            IN  IF b.ok THEN [same EXCEPT !.state = [st EXCEPT ![field] = b.val]] ELSE fail(st)
    IN  IF r.code = CodeA
        THEN LET v == DeserializeVecF32(r.payload)
                 cleared == [st EXCEPT !.a_glow = <<>>]
             IN  IF v.ok THEN [same EXCEPT !.state = [st EXCEPT !.a_glow = v.val]]
                 ELSE fail(cleared)
        ELSE IF r.code = CodeBUSY THEN glow("busy_glow")
        ELSE IF r.code = CodeXFER THEN glow("transfer_glow")
        ELSE IF r.code = CodeAC THEN glow("air_cond_glow")
        ELSE IF r.code = CodeERROR THEN glow("error_glow")
        ELSE IF r.code = CodeTAG THEN glow("tag_glow")
        ELSE IF r.code = CodeTHOLD THEN glow("type_hold_glow")
        ELSE IF r.code = CodeBSPAR THEN glow("bs_parity_glow")
        ELSE IF r.code = CodeNOPRO THEN toggle("no_protn")
        ELSE IF r.code = CodeMANL THEN toggle("manual_state")
        ELSE toggle("plotter_manual")

\* both terminators of the protocol
BothTerminators == {CodeSHUT, CodeKILL}

\* core_receiver: the code whose arm clears running
CoreTerminators == {CodeKILL}

\* proto-system core_receiver: one received frame
CoreHandle(st, r) ==
    LET same == [state |-> st, running |-> TRUE, err |-> FALSE, events |-> <<>>]
        fail == [same EXCEPT !.running = FALSE, !.err = TRUE]
    IN  IF r.res = "err" THEN fail
        ELSE IF ~Utf8Valid(r.code) THEN same
        ELSE IF r.code \in MirrorCodes THEN MirrorHandle(st, r)
        ELSE IF r.code = CodeRESET
            THEN LET b == DeserializeBool(r.payload)
                 IN  IF b.ok THEN [same EXCEPT !.state = [st EXCEPT !.reset_state = b.val]]
                     ELSE fail
        ELSE IF r.code = CodePOWER
            THEN LET b == DeserializeBool(r.payload)
                 IN  IF ~b.ok THEN fail
                     ELSE IF b.val /\ ~st.power_on
                     THEN [same EXCEPT !.state = [st EXCEPT !.power_on = TRUE,
                                                            !.status_request_count = 0,
                                                            !.next_status_clock = st.clock]]
                     ELSE [same EXCEPT !.state = [st EXCEPT !.power_on = b.val]]
        ELSE IF r.code = CodeESTAT
            THEN IF st.status_request_count > 0
                 THEN [same EXCEPT !.state =
                          [st EXCEPT !.status_request_count = st.status_request_count - 1]]
                 ELSE same
        ELSE IF r.code \in CoreTerminators
            THEN [same EXCEPT !.state = [st EXCEPT !.power_on = FALSE],
                              !.running = FALSE, !.events = <<"Kill">>]
        ELSE same

\* simple-system proc_receiver: the decoder written out inside the while
\* loop.  A head that does not start with FRAME_START and a frame that does
\* not end with FRAME_END are both printed and the loop goes round again:
\* res is "skip" for a frame read to its end and dropped.
ProcUnframe(stream, b0) ==
    LET frame_len == Len(FRAME_START)
        code_x == frame_len + 1
        skip == SkipCount(stream, code_x)
    IN  IF skip < 0 THEN RxIo(b0)
        ELSE
        LET b1 == ReadInto(b0, 0, SubSeq(stream, skip * code_x + 1, (skip + 1) * code_x))
            s1 == Drop(stream, (skip + 1) * code_x)
            code_len == b1[frame_len + 1]
            pay_len_x == code_x + code_len
            payload_x == pay_len_x + 2
            b2 == IF Len(b1) < payload_x THEN Resize(b1, payload_x + 32) ELSE b1
        IN  IF Len(s1) < payload_x - code_x THEN RxIo(b2)
            ELSE
            LET b3 == ReadInto(b2, code_x, SubSeq(s1, 1, payload_x - code_x))
                s3 == Drop(s1, payload_x - code_x)
                payload_len == b3[pay_len_x + 1] * 256 + b3[pay_len_x + 2]
                frame_end_x == payload_x + payload_len
                buf_len == frame_end_x + Len(FRAME_END)
                b4 == IF Len(b3) < buf_len THEN Resize(b3, buf_len + 32) ELSE b3
            IN  IF Len(s3) < buf_len - payload_x THEN RxIo(b4)
                ELSE
                LET b5 == ReadInto(b4, payload_x, SubSeq(s3, 1, buf_len - payload_x))
                    s5 == Drop(s3, buf_len - payload_x)
                IN  IF ~StartsWith(Drop(b5, frame_end_x), FRAME_END)
                    THEN [res |-> "skip", id |-> <<>>, code |-> <<>>, payload |-> <<>>,
                          rest |-> s5, b |-> b5]
                    ELSE RxOk(<<>>, Slice(b5, code_x, pay_len_x),
                              Slice(b5, payload_x, frame_end_x), s5, b5)

\* simple-system proc_receiver: one received frame
ProcHandle(st, r) ==
    LET same == [state |-> st, running |-> TRUE, err |-> FALSE, events |-> <<>>]
        fail == [same EXCEPT !.running = FALSE, !.err = TRUE]
    IN  IF r.res = "skip" THEN same
        ELSE IF ~Utf8Valid(r.code) THEN same
        ELSE IF r.code \in MirrorCodes THEN MirrorHandle(st, r)
        ELSE IF r.code = CodePOWER
            THEN LET b == DeserializeBool(r.payload)
                 IN  IF b.ok THEN [same EXCEPT !.state = [st EXCEPT !.power_on = b.val]]
                     ELSE fail
        ELSE IF r.code = CodeSHUT THEN [same EXCEPT !.running = FALSE]
        ELSE same

PanelHandle(pv, st, r) == IF pv = "proto-system" THEN CoreHandle(st, r) ELSE ProcHandle(st, r)

\* the decoder each receive loop runs: core_receiver calls receive_sync,
\* proc_receiver has its own
PanelDecode(pv, stream, b) ==
    IF pv = "proto-system" THEN UnframeMessage(stream, b) ELSE ProcUnframe(stream, b)

\* the Err arm of core_receiver, the first read_exact of proc_receiver
PanelHandleIo(pv, st, kind) ==
    LET same == [state |-> st, running |-> TRUE, err |-> FALSE, events |-> <<>>]
    IN  IF kind = "UnexpectedEof"
        THEN [same EXCEPT !.running = FALSE,
                          !.events = IF pv = "proto-system" THEN <<"Kill">> ELSE <<>>]
        ELSE IF pv = "proto-system" /\ kind \in {"TimedOut", "WouldBlock"} THEN same
        ELSE [same EXCEPT !.running = FALSE, !.err = TRUE]

\* what a server may put on the panel's socket: the frames of a snapshot,
\* the two terminators, codes the panel does not know, payloads that cannot
\* be deserialized, and frames whose ending sentinel is damaged
PanelInputs ==
    { Input("good", CodePOWER, <<0>>), Input("good", CodePOWER, <<1>>),
      Input("good", CodeNOPRO, <<1>>), Input("good", CodeRESET, <<1>>),
      Input("good", CodeBUSY, F32One),
      Input("good", CodeA, SerializeVecF32(<<F32One, F32Half>>)),
      Input("good", CodeESTAT, <<>>),
      Input("good", CodeKILL, <<>>), Input("good", CodeSHUT, <<>>),
      Input("unknown", CodeSTAT, <<>>), Input("unknown", <<255>>, <<1>>),
      Input("badpayload", CodePOWER, <<2>>), Input("badpayload", CodeBUSY, <<0, 0>>),
      Input("badpayload", CodeA, <<2, 0, 0, 0, 0, 0, 0, 0>> \o F32One),
      Input("badend", CodePOWER, <<1>>), Input("badend", CodeBUSY, F32Half) }

\* the bytes of one input on the socket
PanelBytes(in) ==
    LET f == FrameMessage(in.code, in.payload)
    IN  IF in.kind = "badend" THEN SubSeq(f, 1, Len(f) - 2) \o <<165, 0>> ELSE f

PanelInit ==
    /\ pvariant \in {"proto-system", "simple-system"}
    /\ pstate = PanelStateNew
    /\ prx = "running"
    /\ plast = NoInput
    /\ events = <<>>
    /\ exit_flag = FALSE
    /\ pcount = 0
    /\ ServerIdle
    /\ CodecIdle
    /\ RegIdle
    /\ HarnessIdle

\* how the receive loop ends: core_receiver stores exit_flag after the while
\* loop, which a return Err(..) from inside the loop does not reach
PanelAfter(h) ==
    /\ pstate' = h.state
    /\ prx' = IF h.err THEN "failed" ELSE IF h.running THEN "running" ELSE "done"
    /\ events' = events \o h.events
    /\ exit_flag' = (pvariant = "proto-system" /\ ~h.err /\ ~h.running)
    /\ pcount' = pcount + 1
    /\ UNCHANGED <<pvariant, svars, lvars, cvars, rvars, hvars>>

\* one iteration of the receive loop on a frame read to its end
PanelReceive ==
    /\ prx = "running"
    /\ pcount < MaxPanelFrames
    /\ \E in \in PanelInputs :
        LET r == PanelDecode(pvariant, PanelBytes(in), ReceiverBuf)
        IN  /\ r.res # "io"
            /\ plast' = in
            /\ PanelAfter(PanelHandle(pvariant, pstate, r))

\* one iteration of the receive loop whose read fails
PanelReadFault ==
    /\ prx = "running"
    /\ pcount < MaxPanelFrames
    /\ \E kind \in IoKinds :
        /\ plast' = Input(kind, <<>>, <<>>)
        /\ PanelAfter(PanelHandleIo(pvariant, pstate, kind))

PanelNext ==
    \/ PanelReceive
    \/ PanelReadFault

SpecPanel == PanelInit /\ [][PanelNext]_vars

-----------------------------------------------------------------------------
(* SpecReg: a Register<T> and a FlipFlop on one EmulationClock, called     *)
(* with every operand.  T is an unsigned integer type of TBits bits; the   *)
(* code is generic in T and the server uses u32.  The widths new supports  *)
(* are 1 .. TBits - 1: with bits = 0 or bits >= TBits a shift in new       *)
(* overflows.                                                              *)

TBits == 4          \* bits of the integer type T
MaxOps == 3         \* calls and clock advances in one run

TValues == 0..(2 ^ TBits - 1)

Widths == 1..(TBits - 1)

\* beta arguments of update_glow: 0.0 and 1.0
Betas == {0, ONE}

\* nr_ticks arguments of EmulationClock::advance, in 100 ns units
AdvanceUnits == {TIMER_PERIOD, 100000}

\* what a + b does when the sum does not fit T: a debug build panics, a
\* release build wraps
SumOutcomes(a, b) == IF a + b \in TValues THEN {"ok"} ELSE {"panic", "ok"}

Call(op, arg, res) == [op |-> op, arg |-> arg, res |-> res]

RegInit ==
    /\ \E bits \in Widths : reg = RegisterNew(bits, ClockNew(0))
    /\ ff = FlipFlopNew(ClockNew(0))
    /\ rclock = ClockNew(0)
    /\ rlast = Call("new", 0, "ok")
    /\ rcount = 0
    /\ ServerIdle
    /\ CodecIdle
    /\ PanelIdle
    /\ HarnessIdle

\* a call can be made: no earlier call has panicked
MayCall ==
    /\ rlast.res = "ok"
    /\ rcount < MaxOps

Called(op, arg, res) ==
    /\ rlast' = Call(op, arg, res)
    /\ rcount' = rcount + 1
    /\ UNCHANGED <<svars, lvars, cvars, pvars, hvars>>

CallSet ==
    /\ MayCall
    /\ \E v \in TValues :
        /\ reg' = RegSet(reg, rclock, v)
        /\ Called("set", v, "ok")
    /\ UNCHANGED <<ff, rclock>>

CallAdd ==
    /\ MayCall
    /\ \E v \in TValues, res \in {"ok", "panic"} :
        /\ res \in SumOutcomes(reg.value, v)
        /\ reg' = IF res = "ok" THEN RegAdd(reg, rclock, v) ELSE reg
        /\ Called("add", v, res)
    /\ UNCHANGED <<ff, rclock>>

CallAddUnsigned ==
    /\ MayCall
    /\ \E v \in TValues, res \in {"ok", "panic"} :
        /\ res \in SumOutcomes(reg.value, v)
        /\ reg' = IF res = "ok" THEN RegAddUnsigned(reg, rclock, v) ELSE reg
        /\ Called("add_unsigned", v, res)
    /\ UNCHANGED <<ff, rclock>>

CallNegate ==
    /\ MayCall
    /\ reg' = RegNegate(reg, rclock)
    /\ Called("negate", 0, "ok")
    /\ UNCHANGED <<ff, rclock>>

CallUpdateGlow ==
    /\ MayCall
    /\ \E beta \in Betas :
        /\ reg' = UpdateGlow(reg, rclock, beta)
        /\ Called("update_glow", beta, "ok")
    /\ UNCHANGED <<ff, rclock>>

CallAdvance ==
    /\ MayCall
    /\ \E units \in AdvanceUnits :
        /\ rclock' = Advance(rclock, 0, units)
        /\ Called("advance", units, "ok")
    /\ UNCHANGED <<reg, ff>>

FFCallSet ==
    /\ MayCall
    /\ \E b \in BOOLEAN :
        /\ ff' = FFSet(ff, rclock, b)
        /\ Called("ff_set", IF b THEN 1 ELSE 0, "ok")
    /\ UNCHANGED <<reg, rclock>>

FFCallUpdateGlow ==
    /\ MayCall
    /\ \E beta \in Betas :
        /\ ff' = FFUpdateGlow(ff, rclock, beta)
        /\ Called("ff_update_glow", beta, "ok")
    /\ UNCHANGED <<reg, rclock>>

RegNext ==
    \/ CallSet
    \/ CallAdd
    \/ CallAddUnsigned
    \/ CallNegate
    \/ CallUpdateGlow
    \/ CallAdvance
    \/ FFCallSet
    \/ FFCallUpdateGlow

SpecReg == RegInit /\ [][RegNext]_vars

-----------------------------------------------------------------------------
(* SpecLamp: the glow of one lamp, computed as the code computes it, in    *)
(* IEEE-754 binary32 (Vec<f32>, alpha as f32).  A positive f32 is          *)
(* m * 2^e with 2^23 <= m < 2^24; zero is m = 0.  Every result is rounded  *)
(* to nearest, ties to even.  Glows are in 0 .. 1, far from the subnormal  *)
(* range, and the server model above keeps its fixed-point glows: the      *)
(* claims settled there hold for results that are exact in both.           *)

MaxUpdates == 26    \* update_glow calls in one run
MaxChanges == 1     \* changes of the interval between two updates
MaxFlips == 2       \* changes of the lamp's bit

Flt(m, e) == [m |-> m, e |-> e]

GlowZero == Flt(0, 0)
GlowOne == Flt(2 ^ 23, -23)

\* round to nearest, ties to even: mantissa m with rem / den below one unit left over
RoundEven(m, rem, den) ==
    IF 2 * rem > den \/ (2 * rem = den /\ m % 2 = 1) THEN m + 1 ELSE m

\* a mantissa that rounding has carried to 2^24
Renorm(m, e) == IF m = 2 ^ 24 THEN Flt(2 ^ 23, e + 1) ELSE Flt(m, e)

RECURSIVE Normal(_, _)
Normal(n, e) ==
    IF n = 0 THEN GlowZero
    ELSE IF n >= 2 ^ 23 THEN Flt(n, e)
    ELSE Normal(2 * n, e - 1)

\* a * b in f32: the 48-bit product of the mantissas is H * 2^24 + L
F32Mul(a, b) ==
    IF a.m = 0 \/ b.m = 0 THEN GlowZero
    ELSE
    LET a1 == a.m \div 4096
        a0 == a.m % 4096
        b1 == b.m \div 4096
        b0 == b.m % 4096
        mid == a1 * b0 + a0 * b1
        low == (mid % 4096) * 4096 + a0 * b0
        H == a1 * b1 + (mid \div 4096) + (low \div 2 ^ 24)
        L == low % 2 ^ 24
    IN  IF H >= 2 ^ 23
        THEN Renorm(RoundEven(H, L, 2 ^ 24), a.e + b.e + 24)
        ELSE Renorm(RoundEven(2 * H + (L \div 2 ^ 23), L % 2 ^ 23, 2 ^ 23), a.e + b.e + 23)

\* a + b in f32, for a, b >= 0
F32Add(a, b) ==
    IF a.m = 0 THEN b
    ELSE IF b.m = 0 THEN a
    ELSE
    LET hi == IF a.e >= b.e THEN a ELSE b
        lo == IF a.e >= b.e THEN b ELSE a
        d == hi.e - lo.e
    IN  IF d > 25 THEN hi
        ELSE
        LET q == lo.m \div 2 ^ d
            rem == lo.m % 2 ^ d
            sum == hi.m + q
        IN  IF sum < 2 ^ 24
            THEN Renorm(RoundEven(sum, rem, 2 ^ d), hi.e)
            ELSE Renorm(RoundEven(sum \div 2, (sum % 2) * 2 ^ d + rem, 2 ^ (d + 1)), hi.e + 1)

\* 1.0 - a in f32, for 0 <= a <= 1
F32OneMinus(a) ==
    IF a.m = 0 THEN GlowOne
    ELSE IF a.e >= -23 THEN GlowZero
    ELSE IF a.e = -24 THEN Normal(2 ^ 24 - a.m, -24)
    ELSE
    LET d == -24 - a.e
    IN  IF d > 25 THEN GlowOne
        ELSE
        LET q == a.m \div 2 ^ d
            rem == a.m % 2 ^ d
            up == 2 ^ 24 - q
        IN  IF rem = 0 \/ 2 * rem < 2 ^ d \/ (2 * rem = 2 ^ d /\ up % 2 = 0)
            THEN Renorm(up, -24)
            ELSE Flt(up - 1, -24)

\* a <= b, for a, b >= 0
F32Leq(a, b) ==
    IF a.m = 0 THEN TRUE
    ELSE IF b.m = 0 THEN FALSE
    ELSE a.e < b.e \/ (a.e = b.e /\ a.m <= b.m)

\* the smallest k with n * 2^k >= d
RECURSIVE Lead(_, _, _)
Lead(n, d, k) == IF n >= d THEN [n |-> n, k |-> k] ELSE Lead(2 * n, d, k + 1)

\* long division: count more bits of the quotient after the bits in m
RECURSIVE Quot(_, _, _, _)
Quot(r, d, m, count) ==
    IF count = 0 THEN [m |-> m, r |-> r]
    ELSE IF 2 * r >= d THEN Quot(2 * r - d, d, 2 * m + 1, count - 1)
    ELSE Quot(2 * r, d, 2 * m, count - 1)

\* the f32 nearest to n / d, for 0 < n < d
RatToF32(n, d) ==
    LET l == Lead(n, d, 0)
        q == Quot(l.n - d, d, 1, 23)
    IN  Renorm(RoundEven(q.m, q.r, d), -l.k - 23)

\* alpha = (elapsed.max(CLOCK_PERIOD) / LAMP_PERSISTENCE + beta).min(1.0) as f32;
\* elapsed in 100 ns units, beta as a fraction of ONE
AlphaF32(elapsed, beta) ==
    LET el == IF elapsed < CLOCK_PERIOD THEN CLOCK_PERIOD ELSE elapsed
        x == el * ALPHA_PER_UNIT + beta
    IN  IF x >= ONE THEN GlowOne ELSE RatToF32(x, ONE)

\* the body of update_glow's loop for one lamp
GlowStepF32(g, bit, alpha) ==
    LET alpha1 == F32OneMinus(alpha)
    IN  IF bit = 0 THEN F32Mul(g, alpha1) ELSE F32Add(F32Mul(g, alpha1), alpha)

\* intervals between two updates, in 100 ns units: none, 70 timer periods, 16.5 ms
Paces == {0, 70 * TIMER_PERIOD, 165000}

\* Register::new: bit 0, glow 0.0
LampInit ==
    /\ \E pace \in Paces :
        lamp = [bit |-> 0, glow |-> GlowZero, pace |-> pace, changes |-> 0, flips |-> 0, n |-> 0]
    /\ ServerIdle
    /\ CodecIdle
    /\ PanelIdle
    /\ RegIdle
    /\ IdnIdle
    /\ SndIdle
    /\ UiIdle

\* the clock advances by pace and the lamp is updated, at the same pace as
\* before or, MaxChanges times, at a new one
LampPaced(pace, bit, flips) ==
    /\ lamp.n < MaxUpdates
    /\ pace = lamp.pace \/ lamp.changes < MaxChanges
    /\ lamp' = [lamp EXCEPT !.bit = bit,
                            !.glow = GlowStepF32(lamp.glow, bit, AlphaF32(pace, 0)),
                            !.pace = pace,
                            !.flips = flips,
                            !.changes = IF pace = lamp.pace THEN @ ELSE @ + 1,
                            !.n = @ + 1]
    /\ UNCHANGED <<cvars, svars, lvars, pvars, rvars, idn, snd, ui>>

\* clock.advance(pace); update_glow(0.0) on the held bit
LampUpdate == \E pace \in Paces : LampPaced(pace, lamp.bit, lamp.flips)

\* clock.advance(pace); set(..) changes the bit and calls update_glow(0.0)
LampSet ==
    /\ lamp.flips < MaxFlips
    /\ \E pace \in Paces : LampPaced(pace, 1 - lamp.bit, lamp.flips + 1)

LampNext ==
    \/ LampUpdate
    \/ LampSet

SpecLamp == LampInit /\ [][LampNext]_vars

-----------------------------------------------------------------------------
(* SpecIdent: the identification handshake of proto-system server.rs.      *)
(* serve queues a NewConnection for every accepted socket; the broker      *)
(* spawns connection_identifier for it, which sends WRU and waits for the  *)
(* reply or for TIMEOUT_SECS, whichever select! takes first.  server.rs    *)
(* is written for the extended frame variant (bind with an id, receive     *)
(* returning id, code and payload), which is simple-tokio's message_frame. *)

MaxConns == 2       \* connections accepted in one run

Conns == 1..MaxConns

CodeWRU == <<87, 82, 85>>
CodeIAM == <<73, 65, 77>>
PeerId == <<80, 49>>                        \* "P1"

WruFrame == Send(ServerId, CodeWRU, <<>>)
IamFrame == Send(PeerId, CodeIAM, <<>>)

\* what a peer may write after connecting
PeerReplies ==
    { IamFrame,
      Send(PeerId, CodeIAM, <<1>>),
      <<0, 0, 0, 0, 0>> \o IamFrame,
      Send(<<255>>, CodeIAM, <<>>),
      Send(PeerId, CodeSTAT, <<>>),
      Send(PeerId, <<255>>, <<>>),
      SubSeq(IamFrame, 1, Len(IamFrame) - 2) \o <<165, 0>>,
      SubSeq(IamFrame, 1, 6),
      FrameMessage(CodeIAM, <<>>) }

NewConnection(c) == [ev |-> "NewConnection", c |-> c, id |-> <<>>]
NewClient(c, id) == [ev |-> "NewClient", c |-> c, id |-> id]

Verdict(admit, id, why) == [admit |-> admit, id |-> id, why |-> why]

\* an identifier that admits every frame it receives
IdentifyAnyFrame(r) ==
    IF r.res # "ok" THEN Verdict(FALSE, <<>>, "receive") ELSE Verdict(TRUE, r.id, "reply")

\* connection_identifier: the arm of select! that has received r
Identify(r) ==
    IF r.res # "ok" THEN Verdict(FALSE, <<>>, "receive")
    ELSE IF ~Utf8Valid(r.code) THEN Verdict(FALSE, <<>>, "code utf8")
    ELSE IF r.code = CodeIAM
         THEN IF Utf8Valid(r.id) THEN Verdict(TRUE, r.id, "reply")
              ELSE Verdict(FALSE, <<>>, "id utf8")
    ELSE Verdict(FALSE, <<>>, "code")

NoConn == [pc |-> "none", sent |-> <<>>, inbox |-> <<>>, reply |-> <<>>, why |-> "none"]

IdentInit ==
    /\ idn = [queue |-> <<>>, clients |-> <<>>, conn |-> [c \in Conns |-> NoConn]]
    /\ ServerIdle
    /\ CodecIdle
    /\ PanelIdle
    /\ RegIdle
    /\ LampIdle
    /\ SndIdle
    /\ UiIdle

IdentStep(new) ==
    /\ idn' = new
    /\ UNCHANGED <<cvars, svars, lvars, pvars, rvars, lamp, snd, ui>>

\* serve: listener.accept() gave a socket; NewConnection goes to the broker
IdentAccept ==
    \E c \in Conns :
        /\ idn.conn[c].pc = "none"
        /\ IdentStep([idn EXCEPT !.conn[c].pc = "queued",
                                 !.queue = Append(@, NewConnection(c))])

\* connection_broker: the next event of the queue
BrokerTake ==
    /\ idn.queue # <<>>
    /\ LET e == Head(idn.queue)
       IN  IF e.ev = "NewConnection"
           THEN IdentStep([idn EXCEPT !.queue = Tail(@), !.conn[e.c].pc = "spawned"])
           ELSE IdentStep([idn EXCEPT !.queue = Tail(@),
                                      !.clients = Append(@, e),
                                      !.conn[e.c].pc = "taken"])

\* connection_identifier: socket_sender.send("WRU", ..), which may fail
IdentSendWru ==
    \E c \in Conns, ok \in BOOLEAN :
        /\ idn.conn[c].pc = "spawned"
        /\ IdentStep(IF ok
                     THEN [idn EXCEPT !.conn[c].pc = "wait", !.conn[c].sent = <<WruFrame>>]
                     ELSE [idn EXCEPT !.conn[c].pc = "dropped", !.conn[c].why = "send"])

\* the peer writes once, at any time after it has connected
PeerWrite ==
    \E c \in Conns, bytes \in PeerReplies :
        /\ idn.conn[c].pc \in {"queued", "spawned", "wait"}
        /\ idn.conn[c].reply = <<>>
        /\ IdentStep([idn EXCEPT !.conn[c].inbox = bytes, !.conn[c].reply = bytes])

\* select!: receive has returned before the sleep; buf is Vec::with_capacity(32)
IdentReceive ==
    \E c \in Conns :
        /\ idn.conn[c].pc = "wait"
        /\ LET r == Receive(idn.conn[c].inbox, <<>>)
               v == Identify(r)
           IN  /\ r.res # "io"
               /\ IdentStep(IF v.admit
                            THEN [idn EXCEPT !.conn[c].pc = "admitted",
                                             !.conn[c].why = v.why,
                                             !.conn[c].inbox = r.rest,
                                             !.queue = Append(@, NewClient(c, v.id))]
                            ELSE [idn EXCEPT !.conn[c].pc = "dropped",
                                             !.conn[c].why = v.why,
                                             !.conn[c].inbox = r.rest])

\* select!: receive has returned an io::Error (the peer closed or reset)
IdentReceiveFault ==
    \E c \in Conns :
        /\ idn.conn[c].pc = "wait"
        /\ IdentStep([idn EXCEPT !.conn[c].pc = "dropped",
                                 !.conn[c].why = Identify(RxIo(<<>>)).why])

\* select!: the sleep of TIMEOUT_SECS has ended first
IdentTimeout ==
    \E c \in Conns :
        /\ idn.conn[c].pc = "wait"
        /\ IdentStep([idn EXCEPT !.conn[c].pc = "dropped", !.conn[c].why = "timeout"])

IdentNext ==
    \/ IdentAccept
    \/ BrokerTake
    \/ IdentSendWru
    \/ PeerWrite
    \/ IdentReceive
    \/ IdentReceiveFault
    \/ IdentTimeout

SpecIdent == IdentInit /\ [][IdentNext]_vars

-----------------------------------------------------------------------------
(* SpecSend: the panel's event_sender thread (proto-system and             *)
(* simple-system panel.rs).  The UI loop and the receive loop submit       *)
(* events to an mpsc channel; event_sender takes them one at a time and    *)
(* writes one frame of the minimal variant for each.  simple-system builds *)
(* the frame with its own build_frame, byte for byte what frame_message    *)
(* writes.  proto-system's enum has an IAm event for which event_sender    *)
(* has no arm; it is never submitted.                                      *)

MaxEvents == 3      \* events submitted in one run

Ev(name, arg) == [name |-> name, arg |-> arg]

\* bincode::serialize(&bool)
SerializeBool(b) == IF b THEN <<1>> ELSE <<0>>

\* the events the UI loop and the receive loop submit
SendEvents(pv) ==
    { Ev("RequestStatus", FALSE), Ev("PowerChange", TRUE), Ev("Manual", FALSE),
      Ev("Reset", FALSE), Ev("ShutDown", FALSE) }
        \cup (IF pv = "proto-system" THEN {Ev("Kill", FALSE)} ELSE {})

\* the code and payload event_sender frames for an event
EventFrame(ev) ==
    CASE ev.name = "RequestStatus" -> [code |-> CodeSTAT, payload |-> <<>>]
      [] ev.name = "PowerChange" -> [code |-> CodePOWER, payload |-> SerializeBool(ev.arg)]
      [] ev.name = "InitialInstructions" -> [code |-> CodeINIT, payload |-> <<>>]
      [] ev.name = "NoProtection" -> [code |-> CodeNOPRO, payload |-> SerializeBool(ev.arg)]
      [] ev.name = "Clear" -> [code |-> CodeCLEAR, payload |-> <<>>]
      [] ev.name = "Manual" -> [code |-> CodeMANL, payload |-> SerializeBool(ev.arg)]
      [] ev.name = "Reset" -> [code |-> CodeRESET, payload |-> <<>>]
      [] ev.name = "PlotterManual" -> [code |-> CodePLTMN, payload |-> SerializeBool(ev.arg)]
      [] ev.name = "ShutDown" -> [code |-> CodeSHUT, payload |-> <<>>]

\* the events without a frame: Kill only breaks
Unframed == {"Kill"}

\* a sender that goes on after every event
StopsNever(ev) == FALSE

\* the events after which event_sender leaves its loop
Stops(ev) == ev.name \in {"ShutDown", "Kill"}

SendInit ==
    /\ \E pv \in {"proto-system", "simple-system"} :
        snd = [variant |-> pv, queue |-> <<>>, submitted |-> <<>>, written |-> <<>>,
               pc |-> "running"]
    /\ ServerIdle
    /\ CodecIdle
    /\ PanelIdle
    /\ RegIdle
    /\ LampIdle
    /\ IdnIdle
    /\ UiIdle

SendStep(new) ==
    /\ snd' = new
    /\ UNCHANGED <<cvars, svars, lvars, pvars, rvars, lamp, idn, ui>>

\* event_tx.send(ev), which succeeds as long as event_rx exists
SendSubmit ==
    /\ snd.pc = "running"
    /\ Len(snd.submitted) < MaxEvents
    /\ \E ev \in SendEvents(snd.variant) :
        SendStep([snd EXCEPT !.queue = Append(@, ev), !.submitted = Append(@, ev)])

\* one turn of the for loop: the write succeeds or fails
SendTake ==
    /\ snd.pc = "running"
    /\ snd.queue # <<>>
    /\ LET ev == Head(snd.queue)
       IN  IF ev.name \in Unframed
           THEN SendStep([snd EXCEPT !.queue = Tail(@),
                                     !.pc = IF Stops(ev) THEN "done" ELSE @])
           ELSE \E ok \in BOOLEAN :
                   SendStep(IF ok
                            THEN [snd EXCEPT !.queue = Tail(@),
                                             !.written = Append(@, FrameMessage(EventFrame(ev).code,
                                                                                 EventFrame(ev).payload)),
                                             !.pc = IF Stops(ev) THEN "done" ELSE @]
                            ELSE [snd EXCEPT !.queue = Tail(@),
                                             !.pc = IF snd.variant = "proto-system"
                                                    THEN "failed" ELSE "panicked"])

\* every event_tx has been dropped and the queue is empty: the for loop ends
SendClosed ==
    /\ snd.pc = "running"
    /\ snd.queue = <<>>
    /\ SendStep([snd EXCEPT !.pc = "done"])

SendNext ==
    \/ SendSubmit
    \/ SendTake
    \/ SendClosed

SpecSend == SendInit /\ [][SendNext]_vars

-----------------------------------------------------------------------------
(* SpecUi: a panel between its server and its user.  The server pushes     *)
(* status snapshots, the panel's receive loop applies their frames one at  *)
(* a time, and between any two frames the UI loop builds its windows with  *)
(* one of the buttons clicked.  Both loops take the PanelState mutex for   *)
(* the whole of a frame, so each is one step.                              *)

MaxPushes == 2      \* status snapshots the server sends in one run
MaxClicks == 2      \* UI frames in which a button is clicked

\* bincode serialize of an f32: its four bytes, little-endian
SerializeF32(bits) ==
    <<bits % 256, (bits \div 256) % 256, (bits \div 65536) % 256, bits \div 16777216>>

\* the bit pattern of an f32 the panel holds
F32Bits(b) == b[1] + 256 * b[2] + 65536 * b[3] + 16777216 * b[4]

\* the fields of ServerState that send_status reads
Served(power, on, g) ==
    [power_on |-> power,
     no_protn |-> "no_protn" \in on,
     manual_state |-> "manual_state" \in on,
     reset_state |-> "reset_state" \in on,
     plotter_manual |-> "plotter_manual" \in on,
     transfer_glow |-> 0,
     air_cond_glow |-> g,
     error_glow |-> 0,
     tag_glow |-> g,
     type_hold_glow |-> 0,
     bs_parity_glow |-> g,
     busy_ff |-> [glow |-> g],
     a_reg |-> [glow |-> <<g, 0, 1056964608>>]]

\* the snapshots sent: power off, power on, and power on with toggles set
\* (glows are f32 bit patterns: 0 is 0.0, 1065353216 is 1.0, 1056964608 is 0.5)
Snapshots ==
    { Served(FALSE, {}, 0),
      Served(TRUE, {}, 1065353216),
      Served(TRUE, {"no_protn", "reset_state"}, 1065353216),
      Served(TRUE, {"manual_state", "plotter_manual"}, 0) }

\* the bytes of a message code
WireCode(name) ==
    CASE name = "POWER" -> CodePOWER
      [] name = "NOPRO" -> CodeNOPRO
      [] name = "MANL" -> CodeMANL
      [] name = "RESET" -> CodeRESET
      [] name = "PLTMN" -> CodePLTMN
      [] name = "XFER" -> CodeXFER
      [] name = "AC" -> CodeAC
      [] name = "ERROR" -> CodeERROR
      [] name = "TAG" -> CodeTAG
      [] name = "THOLD" -> CodeTHOLD
      [] name = "BSPAR" -> CodeBSPAR
      [] name = "BUSY" -> CodeBUSY
      [] name = "A" -> CodeA
      [] name = "ESTAT" -> CodeESTAT

\* send_status: the serialize call on each frame's value
WirePayload(f) ==
    IF f.code \in {"POWER", "NOPRO", "MANL", "RESET", "PLTMN"} THEN SerializeBool(f.payload)
    ELSE IF f.code = "A"
        THEN SerializeVecF32([i \in 1..Len(f.payload) |-> SerializeF32(f.payload[i])])
    ELSE IF f.code = "ESTAT" THEN <<>>
    ELSE SerializeF32(f.payload)

\* one status push on the panel's socket, each frame with the snapshot it is part of
PushBytes(sv) ==
    LET fs == StatusFrames(sv)
    IN  [i \in 1..Len(fs) |->
            [bytes |-> FrameMessage(WireCode(fs[i].code), WirePayload(fs[i])), snap |-> sv]]

Buttons == {"off", "on", "initial", "no_protn", "clear", "manual", "reset", "plotter_manual"}

\* a UI whose buttons act whatever the mirrored power state
ButtonLiveAlways(st, btn) == TRUE

\* the test that follows each button's build: the ON button acts with the
\* mirrored power off, every other button with it on
ButtonLive(st, btn) == IF btn = "on" THEN ~st.power_on ELSE st.power_on

\* proto-system PanelA::build and PanelB::build with one button clicked: the
\* state is borrowed immutably and events are sent
CoreBuild(st, btn) ==
    LET evs == CASE btn = "off" -> <<Ev("PowerChange", FALSE)>>
                 [] btn = "on" -> <<Ev("PowerChange", TRUE), Ev("RequestStatus", FALSE)>>
                 [] btn = "initial" -> <<Ev("InitialInstructions", FALSE)>>
                 [] btn = "no_protn" -> <<Ev("NoProtection", ~st.no_protn)>>
                 [] btn = "clear" -> <<Ev("Clear", FALSE)>>
                 [] btn = "manual" -> <<Ev("Manual", ~st.manual_state)>>
                 [] btn = "reset" -> <<Ev("Reset", FALSE)>>
                 [] btn = "plotter_manual" -> <<Ev("PlotterManual", ~st.plotter_manual)>>
    IN  [state |-> st, events |-> IF ButtonLive(st, btn) THEN evs ELSE <<>>]

\* simple-system main: the closures of Panel A and Panel B with one button
\* clicked: the button writes the PanelState and then sends the event
ProcBuild(st, btn) ==
    IF ~ButtonLive(st, btn) THEN [state |-> st, events |-> <<>>]
    ELSE CASE btn = "off" ->
                [state |-> [st EXCEPT !.power_on = FALSE, !.no_protn = FALSE,
                                      !.plotter_manual = FALSE, !.manual_state = FALSE,
                                      !.reset_state = FALSE, !.busy_glow = F32Zero,
                                      !.transfer_glow = F32Zero, !.air_cond_glow = F32Zero,
                                      !.error_glow = F32Zero, !.tag_glow = F32Zero,
                                      !.type_hold_glow = F32Zero, !.bs_parity_glow = F32Zero],
                 events |-> <<Ev("PowerChange", FALSE)>>]
           [] btn = "on" ->
                [state |-> [st EXCEPT !.power_on = TRUE],
                 events |-> <<Ev("PowerChange", TRUE)>>]
           [] btn = "initial" ->
                [state |-> st, events |-> <<Ev("InitialInstructions", FALSE)>>]
           [] btn = "no_protn" ->
                [state |-> [st EXCEPT !.no_protn = ~st.no_protn],
                 events |-> <<Ev("NoProtection", ~st.no_protn)>>]
           [] btn = "clear" ->
                [state |-> st, events |-> <<Ev("Clear", FALSE)>>]
           [] btn = "manual" ->
                [state |-> [st EXCEPT !.manual_state = ~st.manual_state],
                 events |-> <<Ev("Manual", ~st.manual_state)>>]
           [] btn = "reset" ->
                [state |-> [st EXCEPT !.reset_state = TRUE],
                 events |-> <<Ev("Reset", FALSE)>>]
           [] btn = "plotter_manual" ->
                [state |-> [st EXCEPT !.plotter_manual = ~st.plotter_manual],
                 events |-> <<Ev("PlotterManual", ~st.plotter_manual)>>]

PanelBuild(pv, st, btn) == IF pv = "proto-system" THEN CoreBuild(st, btn) ELSE ProcBuild(st, btn)

UiDid(kind, code, snap) == [kind |-> kind, code |-> code, snap |-> snap]

UiInit ==
    /\ \E pv \in {"proto-system", "simple-system"} :
        ui = [variant |-> pv, st |-> PanelStateNew, inflight |-> <<>>, submitted |-> <<>>,
              last |-> UiDid("none", <<>>, <<>>), pushes |-> 0, clicks |-> 0]
    /\ ServerIdle
    /\ CodecIdle
    /\ PanelIdle
    /\ RegIdle
    /\ LampIdle
    /\ IdnIdle
    /\ SndIdle

UiStep(new) ==
    /\ ui' = new
    /\ UNCHANGED <<cvars, svars, lvars, pvars, rvars, lamp, idn, snd>>

\* the server pushes the status it holds: send_status writes its frames
UiPush ==
    /\ ui.pushes < MaxPushes
    /\ ui.inflight = <<>>
    /\ \E sv \in Snapshots :
        UiStep([ui EXCEPT !.inflight = PushBytes(sv),
                          !.pushes = @ + 1,
                          !.last = UiDid("push", <<>>, <<>>)])

\* one iteration of the panel's receive loop
UiReceive ==
    /\ ui.inflight # <<>>
    /\ LET item == Head(ui.inflight)
           r == PanelDecode(ui.variant, item.bytes, ReceiverBuf)
           h == PanelHandle(ui.variant, ui.st, r)
       IN  UiStep([ui EXCEPT !.st = h.state,
                             !.inflight = Tail(@),
                             !.last = UiDid("frame", r.code, item.snap)])

\* one frame of the UI loop in which the user clicks a button
UiClick ==
    /\ ui.clicks < MaxClicks
    /\ \E btn \in Buttons :
        LET b == PanelBuild(ui.variant, ui.st, btn)
        IN  UiStep([ui EXCEPT !.st = b.state,
                              !.submitted = @ \o b.events,
                              !.clicks = @ + 1,
                              !.last = UiDid("click", <<>>, <<>>)])

UiNext ==
    \/ UiPush
    \/ UiReceive
    \/ UiClick

SpecUi == UiInit /\ [][UiNext]_vars

\* the latest step dispatched a control frame / the frame it read
Dispatched == nctl' # nctl

PowerInput(in) == in.kind = "good" /\ in.code = CodePOWER

PowerArg(in) == in.payload = <<1>>

\* C3: a frame with a valid start sentinel and consistent lengths whose end
\* sentinel is wrong makes receive return a decode error; the server
\* dispatches nothing for it (ServerState unchanged, nothing sent) and the
\* dispatch loop of that connection ends with an error.
C3_BadEndFatal ==
    [][ (conn = "running" /\ last'.kind = "badend") =>
            /\ Receive(Bytes(last'), ReceiverBuf).res = "err"
            /\ Receive(Bytes(last'), ReceiverBuf).payload = "Invalid frame ending sentinel"
            /\ state' = state
            /\ out' = <<>>
            /\ conn' = "failed" ]_vars

\* C3 witness: a connection has failed on a POWER frame with a damaged end
\* sentinel while the power was on and a batch had run
C3_Witness ==
    /\ conn = "failed"
    /\ last = Input("badend", CodePOWER, <<1>>)
    /\ state.power_on
    /\ BatchesDone(state) > 0

\* C4: after a RESET is processed reset_state is TRUE; with no further RESET
\* or POWER it is TRUE in the snapshots answering the next 14 STAT frames and
\* FALSE in the snapshot answering the 15th and in every later one.
C4_ResetExpiry ==
    polls >= 0 =>
        /\ state.reset_state = (polls < RESET_POLLS)
        /\ IsStat(last) =>
              /\ Len(out) >= 4
              /\ out[4].code = "RESET"
              /\ out[4].payload = (polls < RESET_POLLS)

\* C4 witness: the snapshot answering the 15th STAT after a RESET reports FALSE
C4_Witness ==
    /\ polls = RESET_POLLS
    /\ IsStat(last)
    /\ Len(out) >= 4
    /\ out[4] = [code |-> "RESET", payload |-> FALSE]

\* C4, second witness state: the 14th snapshot still reports TRUE
C4_StillSet ==
    /\ polls = RESET_POLLS - 1
    /\ IsStat(last)
    /\ Len(out) >= 4
    /\ out[4] = [code |-> "RESET", payload |-> TRUE]

\* C5: when the server processes POWER(on) with on different from the
\* current power_on, then afterwards power_on = on and no_protn,
\* manual_state, plotter_manual and reset_state are all FALSE.
C5_PowerTransition ==
    [][ (Dispatched /\ PowerInput(last') /\ PowerArg(last') # state.power_on) =>
            /\ state'.power_on = PowerArg(last')
            /\ ~state'.no_protn
            /\ ~state'.manual_state
            /\ ~state'.plotter_manual
            /\ ~state'.reset_state ]_vars

\* C5 witness: a power-off processed after a power-on
C5_Witness ==
    /\ last = Input("good", CodePOWER, <<0>>)
    /\ nctl = 2
    /\ ~state.power_on
    /\ state.eclock.s = 2 * POWER_ADVANCE

\* C6: immediately after a power-on transition (the first one after boot
\* included) the primary register holds the seed 7654321; immediately after
\* a power-off transition it holds 0.
C6_SeedOrZero ==
    [][ (Dispatched /\ PowerInput(last') /\ PowerArg(last') # state.power_on) =>
            state'.a_reg.value = (IF PowerArg(last') THEN POWER_SEED ELSE 0) ]_vars

\* what a dispatched message can set in ServerState, apart from the register
Toggles(st) ==
    <<st.power_on, st.no_protn, st.manual_state, st.plotter_manual, st.reset_state,
      st.reset_countdown>>

\* the glow vector whose entry for each bit is exactly that bit: 1.0 or 0.0
BitsGlow(v) == <<>> \o [i \in 1..A_BITS |-> IF Bit(v, i - 1) = 1 THEN ONE ELSE 0]

\* a status push has been sent completely and its critical section left
PushComplete == lock = {} /\ Len(out) >= StatusLen

\* C7: from boot (power off, register at its boot value), once the panel has
\* connected and sent POWER(true) and then STAT, with the tick loop running
\* beside it, the snapshot answering the STAT ends with ESTAT, reports POWER
\* = true, and its register glow vector has each bit's glow equal to that
\* bit of the seed.
C7_PowerOnScenario ==
    (IsStat(last) /\ nctl = 1 /\ state.power_on /\ PushComplete) =>
        /\ out[StatusLen].code = "ESTAT"
        /\ out[1] = [code |-> "POWER", payload |-> TRUE]
        /\ out[13] = [code |-> "A", payload |-> BitsGlow(POWER_SEED)]

StatusCodes ==
    <<"POWER", "NOPRO", "MANL", "RESET", "PLTMN", "XFER", "AC", "ERROR", "TAG", "THOLD",
      "BSPAR", "BUSY", "A", "ESTAT">>

Codes(frames) == <<>> \o [i \in 1..Len(frames) |-> frames[i].code]

\* the frames of the status push that the latest dispatch sent, if it sent one
Pushed == IF out # <<>> /\ out[Len(out)].code \in {"KILL", "SHUT"}
          THEN SubSeq(out, 1, Len(out) - 1) ELSE out

\* C8: every status push, in reply to STAT or on a power transition, sends
\* the frames POWER, NOPRO, MANL, RESET, PLTMN, XFER, AC, ERROR, TAG, THOLD,
\* BSPAR, BUSY and A and then exactly one ESTAT, which is the last frame of
\* the push.
C8_SnapshotComplete ==
    /\ (IsStat(last) /\ conn = "running") => Pushed # <<>>
    /\ Pushed # <<>> => Codes(Pushed) = StatusCodes

\* C9: while power_on is FALSE the tick loop changes neither the primary
\* register, nor the busy flip-flop, nor the emulation clock (outside a
\* dispatched control message nothing does), and the sub-second part of the
\* clock, which only increments move, moves only in states with power on.
C9_TickGated ==
    [][ /\ (~state.power_on /\ ~state'.power_on) =>
              /\ state'.eclock = state.eclock
              /\ state'.busy_ff = state.busy_ff
              /\ ~Dispatched => state'.a_reg = state.a_reg
        /\ state'.eclock.u # state.eclock.u => (state.power_on /\ state'.power_on) ]_vars

\* C10: the handling of one received message, its status push included,
\* and one batch of tick-loop increments are each atomic with respect to
\* ServerState: while a push is being sent nothing changes the state, so the
\* frames of the push describe one state; and between the first and the last
\* increment of a batch no message is dispatched.
C10_AtomicSections ==
    [][ /\ "conn" \in lock => state' = state
        /\ ("conn" \in lock /\ "conn" \notin lock') =>
              SubSeq(out', 1, StatusLen) = StatusFrames(state')
        /\ ("cpu" \in lock /\ "cpu" \in lock') =>
              /\ nctl' = nctl
              /\ last' = last
              /\ out' = out
              /\ Toggles(state') = Toggles(state) ]_vars

\* C10 witness: a STAT was answered after a full batch, while the tick loop
\* slept, and the snapshot carries the glow of the state it was taken in
C10_Witness ==
    /\ IsStat(last)
    /\ PushComplete
    /\ BatchesDone(state) = 1
    /\ cpu_pc = "sleep"
    /\ out[13].payload = state.a_reg.glow
    /\ out[13].payload # BitsGlow(state.a_reg.value)

\* C11: connection loss is isolated.  Whatever ended a connection's dispatch
\* loop (SHUT, end of file, a fatal decode or I/O error, or the peer going
\* away while a status snapshot is written to it), the mutex around
\* ServerState is not poisoned, so the state stays usable for the tick loop
\* and for a later connection, and the tick loop has not died.
C11_LossIsolated ==
    conn \in {"done", "failed", "panicked"} =>
        /\ ~poisoned
        /\ cpu_pc # "panicked"

\* C12: cooperative cancellation terminates every loop.  Once run_flag is
\* cleared the tick loop exits and the connection's dispatch loop ends, also
\* when the peer sends nothing more; main's accept loop, which is inside
\* receiver.join() while a connection runs, ends with the dispatch loop.
C12_StopTerminates ==
    (~run_flag) ~> (conn # "running" /\ cpu_pc = "exit")

\* C12, the part that holds: the tick loop exits once run_flag is cleared
C12_TickLoopStops ==
    (~run_flag) ~> (cpu_pc = "exit")

\* server states the terminators are tried on: after boot, and powered on
TerminatorStates == {ServerStateNew, ChangePower(ServerStateNew, TRUE)}

C14_IoFaultClasses ==
    [][ /\ \A kind \in TimeoutKinds :
              HandleIo(state, kind) =
                  [state |-> state, push |-> FALSE, running |-> TRUE, err |-> FALSE]
        /\ ReadFault =>
              /\ state' = state
              /\ out' = <<>>
              /\ last'.kind = "UnexpectedEof" => conn' = "done"
              /\ last'.kind # "UnexpectedEof" => conn' = "failed" ]_vars

\* C14 witness: with power on and a batch of ticks done, the read failed
\* with a reset connection and the dispatch loop returned Err
C14_Witness ==
    /\ state.power_on
    /\ BatchesDone(state) > 0
    /\ conn = "failed"
    /\ last.kind = "ConnectionReset"
    /\ out = <<>>

\* C15: when the payload of a POWER, NOPRO, MANL or PLTMN frame cannot be
\* deserialized as a bool, no field of ServerState changes, no frame is
\* sent, and the dispatch loop of that connection returns Err.
C15_BadPayloadFatal ==
    [][ (conn = "running" /\ last'.kind = "badbool") =>
            /\ last'.code \in {CodePOWER, CodeNOPRO, CodeMANL, CodePLTMN}
            /\ ~DeserializeBool(last'.payload).ok
            /\ state' = state
            /\ out' = <<>>
            /\ conn' = "failed" ]_vars

\* C15 witness: with power on and a batch of ticks done, a POWER frame
\* whose payload byte is 2 has ended the connection
C15_Witness ==
    /\ conn = "failed"
    /\ last = Input("badbool", CodePOWER, <<2>>)
    /\ state.power_on
    /\ BatchesDone(state) > 0

\* C16: a well-formed frame whose code the receiver has no arm for, or
\* whose code is not valid UTF-8, changes no field of the shared state,
\* sends nothing, and the receive loop goes on to the next frame.  Checked
\* on every step in which the server's panel_receiver dispatches such a
\* frame (it takes the lock first, so the mutex is not poisoned), and on
\* the arms of both panels' receive loops.
C16_UnknownIgnored ==
    [][ /\ (Dispatched /\ last'.kind = "unknown") =>
              /\ state' = state
              /\ out' = <<>>
              /\ conn' = "running"
        /\ \A pv \in {"proto-system", "simple-system"}, code \in {CodeSTAT, <<255>>} :
              PanelHandle(pv, PanelStateNew,
                          UnframeMessage(FrameMessage(code, <<1>>), ReceiverBuf)) =
                  [state |-> PanelStateNew, running |-> TRUE, err |-> FALSE,
                   events |-> <<>>] ]_vars

\* C16 witness: with power on and a batch of ticks done, the server has
\* read a KILL frame, which it has no arm for, and its loop is still running
C16_Witness ==
    /\ conn = "running"
    /\ last = Input("unknown", CodeKILL, <<>>)
    /\ state.power_on
    /\ BatchesDone(state) > 0

\* a & b, bit by bit
BitAnd(a, b) ==
    LET And[i \in 0..TBits] ==
            IF i = 0 THEN 0 ELSE And[i - 1] + Bit(a, i - 1) * Bit(b, i - 1) * 2 ^ (i - 1)
    IN  And[TBits]

\* Register::read
RegRead(r) == r.value

\* C17: for every width n that new supports and every value v of T, after
\* set(v) read() returns v & (2^n - 1), whatever was called before.
C17_SetRead ==
    rlast.op = "set" => RegRead(reg) = BitAnd(rlast.arg, 2 ^ reg.bits - 1)

\* C17 witness: on a register of 3 bits, after two other calls, set(13)
\* was called and read() gives 5
C17_Witness ==
    /\ rlast = Call("set", 13, "ok")
    /\ rcount = MaxOps
    /\ reg.bits = 3
    /\ RegRead(reg) = 5

\* C18: after any sequence of set, add, add_unsigned and negate calls on a
\* register of n bits, with any operands, the stored value is masked,
\* 0 <= value < 2^n, and the glow array has exactly n entries.
C18_ValueMasked ==
    /\ reg.value = BitAnd(reg.value, Mask(reg))
    /\ 0 <= reg.value /\ reg.value < 2 ^ reg.bits
    /\ Len(reg.glow) = reg.bits

\* the latest step called add or add_unsigned on a register whose overflow
\* flag was clear
AddCalled ==
    /\ rcount' # rcount
    /\ rlast'.op \in {"add", "add_unsigned"}
    /\ ~reg.overflow

\* what the claim says of the flag and the value after add(v) or
\* add_unsigned(v) on the augend a of a register of n bits
AddResultAsStated ==
    LET n == reg.bits
        a == reg.value
        v == rlast'.arg
        sum == a + v
        sign(x) == Bit(x, n - 1)
        carry == (a % 2 ^ n) + (v % 2 ^ n) >= 2 ^ n
    IN  /\ reg'.value = sum % 2 ^ n
        /\ rlast'.op = "add" => reg'.overflow = (sign(a) = sign(v) /\ sign(sum) # sign(a))
        /\ rlast'.op = "add_unsigned" => reg'.overflow = carry

\* C19: on a register whose overflow flag is clear, add(v) sets the flag
\* exactly when augend and v have the same sign bit and the sum's sign bit
\* differs; add_unsigned(v) sets it exactly when the sum carries out of bit
\* n-1; the call never fails and the stored value is the sum modulo 2^n.
C19_OverflowDetection ==
    [][ AddCalled => (rlast'.res = "ok" /\ AddResultAsStated) ]_vars

\* C19 without "never fails" and for a masked augend: when the call returns
\* and the register held a value below 2^n, flag and value are as stated
C19_FlagsWhenReturned ==
    [][ (AddCalled /\ rlast'.res = "ok" /\ reg.value < 2 ^ reg.bits) => AddResultAsStated ]_vars

\* C20: update_glow(1.0) leaves the glow of every bit at exactly 1 if the
\* bit is set and exactly 0 if it is clear, whatever the glow was before
\* and whatever time has passed since the last update, none included; the
\* same for the glow of a FlipFlop.
C20_GlowSnap ==
    /\ rlast = Call("update_glow", ONE, "ok") =>
            \A i \in 1..Len(reg.glow) : reg.glow[i] = ONE * Bit(reg.value, i - 1)
    /\ rlast = Call("ff_update_glow", ONE, "ok") =>
            ff.glow = (IF ff.value THEN ONE ELSE 0)

\* C20 witness: set(5) left a glow of 9 millionths on bits 0 and 2, the
\* clock advanced by one timer period, and update_glow(1.0) then left the
\* glow at exactly 1, 0, 1
C20_Witness ==
    /\ rlast = Call("update_glow", ONE, "ok")
    /\ rcount = 3
    /\ reg.value = 5
    /\ reg.last_tick = Advance(ClockNew(0), 0, TIMER_PERIOD)
    /\ RegSet(RegisterNew(3, ClockNew(0)), ClockNew(0), 5).glow = <<9, 0, 9>>
    /\ reg.glow = <<ONE, 0, ONE>>

\* the latest step updated the lamp / and left its bit as it was
LampUpdated == lamp'.n # lamp.n
LampHeld == LampUpdated /\ lamp'.bit = lamp.bit

\* C21: after any sequence of set and update_glow calls and clock advances
\* the glow lies in 0 .. 1, and while the bit is held each update_glow(0.0)
\* moves the glow toward the bit and never away from it: it does not
\* decrease for a 1 bit and does not increase for a 0 bit.
C21_GlowConverges ==
    [][ /\ LampUpdated => F32Leq(lamp'.glow, GlowOne)
        /\ (LampHeld /\ lamp.bit = 1) => F32Leq(lamp.glow, lamp'.glow)
        /\ (LampHeld /\ lamp.bit = 0) => F32Leq(lamp'.glow, lamp.glow) ]_vars

\* the range part of C21 alone: every glow is in 0 .. 1
C21_GlowInRange == lamp.glow.m >= 0 /\ F32Leq(lamp.glow, GlowOne)

\* the 0 bit part of C21 alone: the glow of a held 0 bit never increases
C21_ZeroBitDecays == [][ (LampHeld /\ lamp.bit = 0) => F32Leq(lamp'.glow, lamp.glow) ]_vars

\* the glow of a held 1 bit falls by at most one unit in the last place
C21_OneBitWithinUlp ==
    [][ (LampHeld /\ lamp.bit = 1) =>
            \/ F32Leq(lamp.glow, lamp'.glow)
            \/ lamp'.glow = Flt(lamp.glow.m - 1, lamp.glow.e) ]_vars

\* the frame sent is an extended frame with an id, a code and a payload of
\* the lengths the variant provides for
WideValid ==
    /\ variant = "extended"
    /\ Len(txlog) = 1
    /\ Len(txlog[1].id) <= 255 /\ Len(txlog[1].code) <= 255 /\ Len(txlog[1].payload) <= 65535

\* the frame sent has been received with its id, code and payload
WideReturned ==
    /\ rxlog[1].res = "ok"
    /\ rxlog[1].id = txlog[1].id
    /\ rxlog[1].code = txlog[1].code
    /\ rxlog[1].payload = txlog[1].payload

\* C22: in the extended variant, for every sender id of 0..255 bytes, code
\* of 0..255 bytes and payload of 0..65535 bytes, receive on the bytes send
\* has written returns Ok with exactly that id, code and payload.
C22_ExtendedRoundTrip ==
    /\ (WideValid /\ Len(rxlog) >= 1) => WideReturned
    /\ (WideValid /\ rxlog = <<>>) => Receive(wire, buf).res = "ok"

\* C22 for the frames whose length fits the two bytes of frame_len
C22_RoundTripWhenFits ==
    (WideValid /\ Len(rxlog) >= 1
        /\ Len(txlog[1].id) + Len(txlog[1].code) + Len(txlog[1].payload) + 6 < 65536)
    => WideReturned

\* where the code-length field of the frame on the wire is, after the bytes
\* before it (Rust index), and the two length fields read from the wire
CodeLenX == IF variant = "minimal" THEN 2 ELSE 5 + Len(txlog[1].id)
CodeLenField == wire[CodeLenX + 1]
PayloadLenX == CodeLenX + 1 + Len(txlog[1].code)
PayloadLenField == wire[PayloadLenX + 1] * 256 + wire[PayloadLenX + 2]

\* a frame has been written and nothing of it has been read
FrameOnWire == Len(txlog) = 1 /\ rxlog = <<>>

\* C23: every frame written by send / frame_message, for any code and
\* payload, has a code-length field equal to the number of code bytes
\* written, which is at most 255, and a payload-length field equal to the
\* number of payload bytes written, which is at most 65535.
C23_LengthFieldsAgree ==
    FrameOnWire =>
        /\ CodeLenField = Len(txlog[1].code) /\ Len(txlog[1].code) <= 255
        /\ PayloadLenField = Len(txlog[1].payload) /\ Len(txlog[1].payload) <= 65535
        /\ Len(wire) = txlog[1].size

\* C23 for a code of at most 255 bytes and a payload of at most 65535 bytes
C23_AgreeInRange ==
    (FrameOnWire /\ Len(txlog[1].code) <= 255 /\ Len(txlog[1].payload) <= 65535) =>
        /\ CodeLenField = Len(txlog[1].code)
        /\ PayloadLenField = Len(txlog[1].payload)

\* the NewClient events produced so far for connection c
NewClients(c) ==
    {i \in 1..Len(idn.queue) : idn.queue[i].ev = "NewClient" /\ idn.queue[i].c = c}
        \cup {-i : i \in {j \in 1..Len(idn.clients) : idn.clients[j].c = c}}

NewClientId(c, i) == IF i > 0 THEN idn.queue[i].id ELSE idn.clients[-i].id

\* C24: for each accepted connection the server first sends WRU; a
\* NewClient event is produced for it only if the peer's reply was received
\* before the timeout and is a well-formed frame with code IAM and a UTF-8
\* identifier, and then once and with that identifier; after a timeout, a
\* send or receive error, another code or a non-UTF-8 code or identifier
\* there is no NewClient event and the connection is dropped.
C24_Admission ==
    \A c \in Conns :
        LET k == idn.conn[c]
            r == Receive(k.reply, <<>>)
        IN  /\ k.pc \in {"wait", "admitted", "taken"} => k.sent = <<WruFrame>>
            /\ k.pc \in {"none", "queued", "spawned"} => k.sent = <<>>
            /\ NewClients(c) # {} =>
                  /\ Cardinality(NewClients(c)) = 1
                  /\ k.pc \in {"admitted", "taken"} /\ k.why = "reply"
                  /\ r.res = "ok" /\ r.code = CodeIAM /\ Utf8Valid(r.id)
                  /\ \A i \in NewClients(c) : NewClientId(c, i) = r.id
            /\ k.why \in {"timeout", "send", "receive", "code", "code utf8", "id utf8"} =>
                  k.pc = "dropped" /\ NewClients(c) = {}
            /\ k.pc \in {"admitted", "taken"} <=> NewClients(c) # {}

\* C24 witness: the broker has taken the NewClient of connection 1, whose
\* peer answered IAM behind five bytes of noise, and connection 2 was
\* dropped on the timeout although its peer had written a good IAM frame
C24_Witness ==
    /\ idn.clients = <<NewClient(1, PeerId)>>
    /\ idn.conn[1].reply = <<0, 0, 0, 0, 0>> \o IamFrame
    /\ idn.conn[2].pc = "dropped"
    /\ idn.conn[2].why = "timeout"
    /\ idn.conn[2].reply = IamFrame

\* the events event_sender has taken from its queue, in order
Taken == SubSeq(snd.submitted, 1, Len(snd.submitted) - Len(snd.queue))

FrameOf(ev) == FrameMessage(EventFrame(ev).code, EventFrame(ev).payload)

\* the events taken that have a frame on the socket: not Kill, and not the
\* event whose write failed
HasFrame(ev) == ev.name \notin Unframed

Framed ==
    LET t == IF snd.pc \in {"failed", "panicked"} THEN SubSeq(Taken, 1, Len(Taken) - 1) ELSE Taken
    IN  SelectSeq(t, HasFrame)

\* no event has been taken after a ShutDown or a Kill
NoneAfterStop == \A i \in 1..(Len(Taken) - 1) : Taken[i].name \notin {"ShutDown", "Kill"}

\* C25 as stated: the frames on the socket are those of the events taken
\* from the queue, in the order of submission and one frame per event, and
\* no event queued after a ShutDown or a Kill has a frame.
C25_OneFramePerEvent ==
    /\ Len(snd.written) = Len(Taken)
    /\ \A i \in 1..Len(Taken) : Taken[i].name \notin Unframed /\ snd.written[i] = FrameOf(Taken[i])
    /\ NoneAfterStop

\* C25: event_sender writes frames in the order in which the events were
\* submitted, one frame per event except that a Kill event has no frame and
\* that an event whose write fails has none and ends the loop; no frame is
\* written for an event queued after a ShutDown or a Kill.
C25_OrderPreserved ==
    /\ Len(snd.written) = Len(Framed)
    /\ \A i \in 1..Len(Framed) : snd.written[i] = FrameOf(Framed[i])
    /\ NoneAfterStop
    /\ (snd.pc = "running" /\ Taken # <<>>) => Taken[Len(Taken)].name \notin {"ShutDown", "Kill"}

\* C25 witness: POWER and SHUT have been written in that order and the
\* STAT poll queued behind the ShutDown stays unwritten
C25_Witness ==
    /\ snd.submitted = <<Ev("PowerChange", TRUE), Ev("ShutDown", FALSE), Ev("RequestStatus", FALSE)>>
    /\ snd.written = <<FrameMessage(CodePOWER, <<1>>), FrameMessage(CodeSHUT, <<>>)>>
    /\ snd.queue = <<Ev("RequestStatus", FALSE)>>
    /\ snd.pc = "done"

\* the latest step wrote a frame to the socket
FrameWritten == Len(out') > Len(out)

\* the tick loop is at state.lock() and a push has frames left to send
TickWaitsForPush == cpu_pc = "check" /\ "conn" \in lock /\ push_k < StatusLen

\* C26: the server never writes to the socket while it holds the lock on
\* ServerState, so the tick loop never waits at the lock for a status push
\* to a slow or stalled client to complete.
C26_NoWriteUnderLock ==
    [][ /\ FrameWritten => "conn" \notin lock'
        /\ ~TickWaitsForPush' ]_vars

\* the writes that are made without the lock: KILL, after the guard is dropped
C26_KillOutsideLock ==
    [][ (FrameWritten /\ out'[Len(out')] = KillFrame) => lock' = {} ]_vars

\* clock value a is not later than b
ClockLeq(a, b) == a.s < b.s \/ (a.s = b.s /\ a.u <= b.u)

\* C27: in every server execution, whatever the interleaving of tick-loop
\* steps and dispatched messages, the emulation clock never decreases, and
\* it changes only by an advance of TIMER_PERIOD (tick loop) or of 1e6
\* (change_power), both non-negative.  No register is ahead of the clock.
C27_ClockMonotonic ==
    [][ /\ ClockLeq(state.eclock, state'.eclock)
        /\ state'.eclock \in { state.eclock,
                               Advance(state.eclock, 0, TIMER_PERIOD),
                               Advance(state.eclock, POWER_ADVANCE, 0) }
        /\ ClockLeq(state'.a_reg.last_tick, state'.eclock)
        /\ ClockLeq(state'.busy_ff.last_tick, state'.eclock) ]_vars

\* C27 witness: the clock has been advanced by power on, by the ticks of a
\* batch and by power off
C27_Witness ==
    /\ conn # "none"
    /\ state.eclock.s = 2 * POWER_ADVANCE
    /\ state.eclock.u = BATCH_SIZE * TIMER_PERIOD
    /\ ~state.power_on

-----------------------------------------------------------------------------
(* C28: connection loss surfaces to the UI                                 *)

\* core_receiver has returned, by either way out of its while loop.  The
\* store to exit_flag is the statement after the loop and the only store in
\* the program, so what the flag holds once the thread has returned is what
\* it holds for ever after.
CoreEnded == pvariant = "proto-system" /\ prx \in {"done", "failed"}

\* C28: whenever proto-system's receive loop has terminated, for whatever
\* reason (KILL, EOF, a fatal I/O error, a fatal decode error, a payload that
\* cannot be deserialized), the exit_flag the UI loop reads is set
C28_LossSurfaces == CoreEnded => exit_flag

\* the endings that leave the loop by its while test (KILL, EOF) do set it
C28_CleanEndSurfaces == (pvariant = "proto-system" /\ prx = "done") => exit_flag

-----------------------------------------------------------------------------
(* C29: the panel's inline decoder against unframe_message                 *)

\* this step is an iteration of the receive loop that read a frame to its end
PanelFrameRead == pcount' # pcount /\ plast'.kind \in {"good", "unknown", "badpayload", "badend"}

\* what unframe_message makes of the bytes the panel has just read
ServerSide == UnframeMessage(PanelBytes(plast'), ReceiverBuf)

\* what proc_receiver's own decoder makes of them
PanelSide == ProcUnframe(PanelBytes(plast'), ReceiverBuf)

\* C29: on every byte stream simple-system's proc_receiver decodes as
\* unframe_message does, and a frame with a bad ending sentinel ends the
\* panel's receive loop with an error instead of being skipped
C29_SameResync ==
    [][ (pvariant = "simple-system" /\ PanelFrameRead) =>
            /\ PanelSide = ServerSide
            /\ ServerSide.res = "err" => prx' = "failed" ]_vars

\* the two decoders agree on every frame whose ending sentinel is sound
C29_SameOnSoundFrames ==
    [][ (pvariant = "simple-system" /\ PanelFrameRead /\ plast'.kind # "badend") =>
            PanelSide = ServerSide ]_vars

-----------------------------------------------------------------------------
(* C30: a payload that cannot be deserialized and the mirror               *)

\* this step read a well-formed frame with a known code whose payload cannot
\* be deserialized
BadPayloadRead == pcount' # pcount /\ plast'.kind = "badpayload"

\* C30: a well-formed frame with a known code whose payload cannot be
\* deserialized leaves every field of PanelState, a_glow included, as it was
C30_MirrorKept == [][ BadPayloadRead => pstate' = pstate ]_vars

\* every field other than a_glow is kept, and the loop ends with an error
C30_ScalarsKept ==
    [][ BadPayloadRead =>
            /\ [pstate' EXCEPT !.a_glow = pstate.a_glow] = pstate
            /\ plast'.code # CodeA => pstate' = pstate
            /\ prx' = "failed" ]_vars

-----------------------------------------------------------------------------
(* C31: the panel's mirror and the server's snapshot                       *)

\* the mirrored fields of a PanelState, glows as f32 bit patterns
Mirror(st) ==
    [power_on |-> st.power_on, no_protn |-> st.no_protn, manual_state |-> st.manual_state,
     plotter_manual |-> st.plotter_manual, reset_state |-> st.reset_state,
     busy |-> F32Bits(st.busy_glow), transfer |-> F32Bits(st.transfer_glow),
     air_cond |-> F32Bits(st.air_cond_glow), error |-> F32Bits(st.error_glow),
     tag |-> F32Bits(st.tag_glow), type_hold |-> F32Bits(st.type_hold_glow),
     bs_parity |-> F32Bits(st.bs_parity_glow),
     a |-> [i \in 1..Len(st.a_glow) |-> F32Bits(st.a_glow[i])]]

\* the same fields as the server held them when it sent the snapshot
Sent(sv) ==
    [power_on |-> sv.power_on, no_protn |-> sv.no_protn, manual_state |-> sv.manual_state,
     plotter_manual |-> sv.plotter_manual, reset_state |-> sv.reset_state,
     busy |-> sv.busy_ff.glow, transfer |-> sv.transfer_glow,
     air_cond |-> sv.air_cond_glow, error |-> sv.error_glow,
     tag |-> sv.tag_glow, type_hold |-> sv.type_hold_glow,
     bs_parity |-> sv.bs_parity_glow,
     a |-> sv.a_reg.glow]

\* this step applied the ESTAT that ends a snapshot
SnapshotApplied == ui'.last.kind = "frame" /\ ui'.last.code = CodeESTAT /\ ui' # ui

\* this step is a frame of the UI loop
UiFrame == ui'.last.kind = "click" /\ ui'.clicks # ui.clicks

\* C31: once the panel has applied every frame of a snapshot up to its ESTAT
\* the mirror equals what the server held when it sent the snapshot, and the
\* mirrored fields are written by the receive path only: no frame of the UI
\* loop changes them
C31_MirrorConverges ==
    [][ /\ SnapshotApplied => Mirror(ui'.st) = Sent(ui'.last.snap)
        /\ UiFrame => Mirror(ui'.st) = Mirror(ui.st) ]_vars

\* proto-system's panel does both
C31_CoreMirrorConverges ==
    [][ ui.variant = "proto-system" =>
            /\ SnapshotApplied => Mirror(ui'.st) = Sent(ui'.last.snap)
            /\ UiFrame => Mirror(ui'.st) = Mirror(ui.st) ]_vars

-----------------------------------------------------------------------------
(* C38: the panel's control events and the mirrored power state            *)

\* the events of the buttons: every event but RequestStatus
ControlEvents ==
    {"PowerChange", "InitialInstructions", "NoProtection", "Clear", "Manual", "Reset",
     "PlotterManual"}

\* the events this step has submitted
Submitted == { ui'.submitted[i] : i \in (Len(ui.submitted) + 1)..Len(ui'.submitted) }

\* C38: the UI submits INIT, NOPRO, CLEAR, MANL, RESET, PLTMN and POWER(false)
\* only while the power_on it mirrors is true, and POWER(true) only while it
\* is false
C38_PowerGated ==
    [][ \A ev \in Submitted :
            ev.name \in ControlEvents =>
                IF ev = Ev("PowerChange", TRUE) THEN ~ui.st.power_on ELSE ui.st.power_on ]_vars

\* the panel has switched the power on, mirrored the server's answer and
\* submitted a toggle
C38_Witness ==
    /\ ui # <<>>
    /\ ui.variant = "proto-system"
    /\ ui.st.power_on
    /\ Len(ui.submitted) = 3
    /\ ui.submitted[1] = Ev("PowerChange", TRUE)
    /\ ui.submitted[3] = Ev("NoProtection", TRUE)

-----------------------------------------------------------------------------
(* C32: what one step of the tick loop does                                *)

\* this step is one iteration of simple_cpu's for loop
Ticked == cpu_pc = "batch" /\ cpu_i' = cpu_i + 1

\* this step leaves the for loop
BatchLeft == cpu_pc = "batch" /\ cpu_pc' # "batch"

\* C32: a tick adds exactly 1 to the A register modulo 2^30, sets busy to
\* whether the value before the increment was even and advances the clock by
\* one TIMER_PERIOD; a wake cycle is exactly BATCH_SIZE ticks (SYS_BATCH_SIZE
\* in simple-system), so busy alternates from one tick to the next.  The
\* tick is also applied to the register at 2^30 - 1, which wraps to 0.
C32_TickStep ==
    [][ /\ Ticked =>
            /\ state'.a_reg.value = (state.a_reg.value + 1) % (2 ^ A_BITS)
            /\ state'.busy_ff.value = (state.a_reg.value % 2 = 0)
            /\ state'.eclock = Advance(state.eclock, 0, TIMER_PERIOD)
            /\ cpu_i >= 1 => state'.busy_ff.value # state.busy_ff.value
            /\ LET top == [state EXCEPT !.a_reg.value = 2 ^ A_BITS - 1]
               IN  TickStep(top).a_reg.value = 0 /\ TickStep(top).busy_ff.value = FALSE
            /\ [state' EXCEPT !.a_reg = state.a_reg, !.busy_ff = state.busy_ff,
                              !.eclock = state.eclock] = state
        /\ BatchLeft => cpu_i = BATCH_SIZE
        /\ (cpu_pc = "check" /\ cpu_pc' = "batch") =>
               LET cycle == TickSteps(state, SYS_BATCH_SIZE)
               IN  /\ cycle.a_reg.value = (state.a_reg.value + SYS_BATCH_SIZE) % (2 ^ A_BITS)
                   /\ cycle.eclock = Advance(state.eclock, 0, SYS_BATCH_SIZE * TIMER_PERIOD)
                   /\ cycle.busy_ff.value = ((state.a_reg.value + SYS_BATCH_SIZE - 1) % 2 = 0) ]_vars

\* a whole wake cycle has run and the loop sleeps
C32_Witness ==
    /\ cpu_pc = "sleep"
    /\ state.power_on
    /\ BatchesDone(state) >= 1
    /\ ~state.busy_ff.value

-----------------------------------------------------------------------------
(* C39: the overflow flag of a register                                    *)

\* C39: once add or add_unsigned has set a register's overflow flag, no later
\* set, add, add_unsigned, negate or update_glow clears it
C39_OverflowSticky == [][ reg.overflow => reg'.overflow ]_vars

\* the flag was set by an earlier call and the latest call is another one
C39_Witness ==
    /\ reg # <<>>
    /\ reg.overflow
    /\ rcount = 3
    /\ rlast.op \in {"set", "negate", "update_glow"}
    /\ rlast.res = "ok"

-----------------------------------------------------------------------------
(* C33, C36: frames with a narrow effect, or none                          *)

\* this step dispatched a well-formed frame with the code given
Served1(code) == nctl' = nctl + 1 /\ last'.kind = "good" /\ last'.code = code

\* no status frame was written by this step
NoPush == out' \in {<<>>, <<KillFrame>>}

\* C33: POWER(on) with on equal to power_on changes no field of ServerState
\* and sends no status frame
C33_RedundantPower ==
    [][ (Served1(CodePOWER) /\ DeserializeBool(last'.payload).val = state.power_on) =>
            state' = state /\ NoPush ]_vars

\* POWER(true) has been dispatched with the power on, and nothing was sent
C33_Witness ==
    /\ last.kind = "good"
    /\ last.code = CodePOWER
    /\ last.payload = <<1>>
    /\ nctl = 2
    /\ state.power_on
    /\ state.a_reg.value = BOOT_VALUE + POWER_SEED
    /\ out = <<>>

\* C36: NOPRO(b), MANL(b) and PLTMN(b) set their own toggle to b and nothing
\* else; CLEAR changes only the A register, whose value becomes 0 and whose
\* glow is brought up to the clock; INIT changes nothing; none of them sends
\* a frame
C36_NarrowEffect ==
    [][ LET b == DeserializeBool(last'.payload).val
        IN  /\ Served1(CodeNOPRO) => state' = [state EXCEPT !.no_protn = b] /\ NoPush
            /\ Served1(CodeMANL) => state' = [state EXCEPT !.manual_state = b] /\ NoPush
            /\ Served1(CodePLTMN) => state' = [state EXCEPT !.plotter_manual = b] /\ NoPush
            /\ Served1(CodeINIT) => state' = state /\ NoPush
            /\ Served1(CodeCLEAR) =>
                  /\ [state' EXCEPT !.a_reg = state.a_reg] = state
                  /\ state'.a_reg.value = 0
                  /\ state'.a_reg.last_tick = state.eclock
                  /\ state'.a_reg.overflow = state.a_reg.overflow
                  /\ state'.a_reg.bits = state.a_reg.bits
                  /\ NoPush ]_vars

\* the register has been cleared and a toggle set after it
C36_Witness ==
    /\ last.kind = "good"
    /\ last.code = CodeMANL
    /\ last.payload = <<1>>
    /\ state.manual_state
    /\ ~state.power_on
    /\ state.a_reg.value = 0
    /\ nctl = 2

-----------------------------------------------------------------------------
(* C34, C35: invariants of the ServerState                                 *)

\* C34: in every reachable state of the server, power off implies that
\* no_protn, manual_state, plotter_manual and reset_state are all false
C34_OffMeansNoToggle ==
    ~state.power_on =>
        ~(state.no_protn \/ state.manual_state \/ state.plotter_manual \/ state.reset_state)

\* change_power itself leaves no toggle set
C34_PowerChangeClears ==
    [][ (Served1(CodePOWER) /\ state'.power_on # state.power_on) =>
            ~(state'.no_protn \/ state'.manual_state \/ state'.plotter_manual
                \/ state'.reset_state) ]_vars

\* C35: reset_state implies 1 <= reset_countdown <= 15, and reset_countdown
\* is never below 0 nor above 15
C35_ResetConsistent ==
    /\ state.reset_countdown \in 0..RESET_POLLS
    /\ state.reset_state => state.reset_countdown >= 1

\* fourteen polls after a RESET: the flag is still set, the countdown at one
C35_Witness ==
    /\ state.reset_state
    /\ state.reset_countdown = 1
    /\ polls = RESET_POLLS - 1

-----------------------------------------------------------------------------
(* C37: the extended decoder and length fields that do not agree           *)

\* the bytes receive starts to decode: the stream from the first head that
\* begins with FRAME_START
FrameAhead == Drop(wire, SkipCount(wire, 5) * 5)

\* the frame extent the bytes declare: sentinels and frame length included
DeclaredExtent == FrameAhead[3] * 256 + FrameAhead[4] + 4

\* where the bytes say the code length and the payload length are (first byte is 1)
CodeLenAt == 6 + FrameAhead[5]
PayloadLenAt == CodeLenAt + FrameAhead[CodeLenAt] + 1

\* the id, the code and the payload, with their length fields, fill the
\* declared extent exactly
LengthsFit ==
    /\ CodeLenAt <= DeclaredExtent
    /\ PayloadLenAt + 1 <= DeclaredExtent
    /\ PayloadLenAt + 1 + FrameAhead[PayloadLenAt] * 256 + FrameAhead[PayloadLenAt + 1] + 2
           = DeclaredExtent

\* this step is a receive call that returned
ReceiveReturned == Len(rxlog') = Len(rxlog) + 1

Returned == rxlog'[Len(rxlog')]

====
